---- MODULE Spec2Model ----
(***************************************************************************)
(* Serving engine of Solid-Calculator's express-serve plugin.              *)
(*                                                                         *)
(* Part 1 (Spec): server lifecycle of createServing / expressServe         *)
(*   - closeServer, createServer, startServing, stopServing, the server's  *)
(*     'error' handler and the termination-signal handlers.                *)
(*   The node http.Server is modelled by what the engine observes of it:   *)
(*     listen()   binds the listening handle or leaves an 'error' event    *)
(*                pending (EADDRINUSE, or any other code);                 *)
(*     close(cb)  releases the listening handle at once; 'close' is        *)
(*                emitted when the handle is released and no connection is *)
(*                left; cb gets an error when the server was not running   *)
(*                at the time close() was called (ERR_SERVER_NOT_RUNNING). *)
(*   Every async call (startServing / stopServing) is a task with a        *)
(*   position: suspended on the close callback, ready to resume, finished. *)
(***************************************************************************)
EXTENDS Integers, Naturals, Sequences, FiniteSets, TLC

\* ----- bound of the model: the number of calls the callers of the engine make
\* (createServing, expressServe, startServing, stopServing), all callers together
MaxCalls == 5

\* ----- program constants
DefaultPort == 10001

\* a controller, an async call or a server takes at least one call to come to exist
Ctl == 1..MaxCalls
Srv == 1..MaxCalls
Task == 1..MaxCalls

\* port 0 asks the OS for any free port: it never collides
Ports == {0, DefaultPort}

VARIABLES
  proc,      \* "running" | "exitedSignal" | "exitedAddrInUse" | "crashed"
  ctlState,  \* [Ctl -> "absent" | "standalone" | "plugin"]
  ctlPort,   \* [Ctl -> Ports]            options.port of the controller
  ctlHttps,  \* [Ctl -> BOOLEAN]          options.https of the controller is set
  bundle,    \* [Ctl -> record]           a plugin's bundleCount and the calls it made
  server,    \* [Ctl -> 0..MaxServers]    the closure variable `server` (0 = null)
  handlers,  \* sequence of controllers whose termination handlers are registered
  nSrv,      \* number of servers created so far
  srv,       \* [Srv -> record]           the http servers created by createServer
  nTask,     \* number of async calls begun so far
  task,      \* [Task -> record]          the async calls startServing / stopServing
  diag,      \* TRUE once log.error('Endpoint is in use ...') was written
  uncaught   \* code of the error rethrown by the 'error' handler, or "none"

lifeVars ==
  <<proc, ctlState, ctlPort, ctlHttps, bundle, server, handlers, nSrv, srv, nTask, task,
    diag, uncaught>>

\* ----- state of one createServer(options) building its handler chain, and of a
\* request travelling through it (Part 2, SpecPipeline)
VARIABLES
  opts,      \* the normalized options createServer was given
  files,     \* [base -> set of paths]  the files under each content directory
  stage,     \* the block of createServer that runs next (index into createServerOrder)
  stack,     \* the layers registered on the express app so far, in order
  req,       \* the request being handled, or NoReq
  idx,       \* the layer of the stack the request is at
  ran,       \* the layers whose handler ran for the request and passed it on
  resp       \* who answered the request (see Reply), or NoResp

pipeVars == <<opts, files, stage, stack, req, idx, ran, resp>>

\* ----- state of option normalization (Part 4)
VARIABLES
  raw,       \* the raw configuration handed to normalizeExpressServeOptions
  fs,        \* the files and directories that exist
  norm,      \* what the call gave: NotNormalized, or the record returned / the throw
  engine,    \* what createServer made of the fallback option, or NotStarted
  again      \* what normalizing the record returned gave, or NotNormalized

normVars == <<raw, fs, norm, engine, again>>

\* ----- state of the parts of the engine that work on one request or one call at
\* a time (Part 5): the trace filter, the MIME resolver, the DevTools endpoint and
\* the logger, and the command line (part_004). A behaviour of SpecUnits exercises
\* one of them.
VARIABLES
  unit,           \* "trace" | "mime" | "devtools" | "logger" | "cli" ("none": not looked at)
  traceRequests,  \* the raw traceRequests option
  traced,         \* the last request morgan saw: its url and whether it was logged
  mimeTypes,      \* options.mimeTypes
  served,         \* the last file express.static served and the Content-Type it set
  devtools,       \* the DevTools plugin: options, environment, workspace file, uuids made
  responses,      \* the workspace descriptors the endpoint answered with, in order
  loggerInstance, \* LoggerController.loggerInstance (made = FALSE: null)
  console,        \* the last log call: its level, the logger, whether the message was written
  loggerFactory,  \* LoggerController.loggerFactory: "createLogger" | "custom"
  logCall,        \* the last call on `log`: whether it called the factory, whether it threw
  cli,            \* the command line: parsing | failed | configured, and what .fail did
  argv,           \* the parsed arguments: argv.folder
  config          \* the configuration the overrides are applied to: config.contentBase

\* ----- state of the calculator component (part_013, SpecCalc): its signals, and
\* the keys pressed so far
VARIABLES
  display,            \* the characters shown
  operator,           \* null or the pending operator
  firstValue,         \* null or the stored first operand, a string
  waitingForOperand,
  expression,
  keys                \* the keys pressed so far, each with whether its handler took effect

unitVars ==
  <<unit, traceRequests, traced, mimeTypes, served, devtools, responses, loggerInstance, console,
    loggerFactory, logCall, cli, argv, config,
    display, operator, firstValue, waitingForOperand, expression, keys>>

vars == <<lifeVars, pipeVars, normVars, unitVars>>

NoSrv ==
  [owner |-> 0, port |-> 0, tls |-> FALSE, handle |-> FALSE, inflight |-> FALSE,
   closing |-> FALSE, cbs |-> 0, err |-> "none", handled |-> "none", pred |-> 0]

NoTask ==
  [kind |-> "none", ctl |-> 0, pc |-> "none", target |-> 0, live |-> FALSE,
   cbErr |-> FALSE, over |-> {}, made |-> 0]

Alive == proc = "running"

InFlight(t) == task[t].pc \in {"awaitClose", "resolved", "rejected"}

\* the calls of controller c that have begun and not finished
Pending(c) == {t \in Task : task[t].ctl = c /\ InFlight(t)}

Busy(c) == Pending(c) # {}

\* calls made so far: one per controller created and one per async call begun
\* (expressServe makes two: createServing and startServing)
Calls == Cardinality({c \in Ctl : ctlState[c] # "absent"}) + nTask

\* the listening handle released and every connection ended: 'close' can be emitted
Drained(s) == ~srv[s].handle /\ ~srv[s].inflight

FullyClosed(s) == srv[s].closing /\ Drained(s)

InitLife ==
  /\ proc = "running"
  /\ ctlState = [c \in Ctl |-> "absent"]
  /\ ctlPort = [c \in Ctl |-> DefaultPort]
  /\ ctlHttps = [c \in Ctl |-> FALSE]
  /\ bundle = [c \in Ctl |-> [bundleCount |-> 0, printPaths |-> 0, openPage |-> 0]]
  /\ server = [c \in Ctl |-> 0]
  /\ handlers = <<>>
  /\ nSrv = 0
  /\ srv = [s \in Srv |-> NoSrv]
  /\ nTask = 0
  /\ task = [t \in Task |-> NoTask]
  /\ diag = FALSE
  /\ uncaught = "none"

NoReq == [method |-> "none", path |-> <<>>, html |-> FALSE]

\* a url: the upstream it names ("" when it names none) and the path
NoUrl == [target |-> "", path |-> <<>>]

\* a response: the layer that answered and its x-trace-source; for a proxied
\* request also the upstream chosen, the path forwarded and x-trace-target
Reply(source, by) ==
  [source |-> source, by |-> by, upstream |-> "", path |-> <<>>, trace |-> NoUrl]

NoResp == Reply("none", 0)

NoOpts ==
  [trace |-> FALSE, headers |-> FALSE, middleware |-> 0, contentBase |-> <<>>,
   proxy |-> <<>>, fallback |-> "off", routes |-> <<>>, fallbackFile |-> "none"]

\* ----- JavaScript values: a type tag, the characters of a string (the digits of
\* a number, true / false for a boolean), the elements of an array or the
\* [k, val] entries of an object literal in the order they were written
JVal(tag, chars, items) == [t |-> tag, s |-> chars, l |-> items]

JUndefined == JVal("undefined", <<>>, <<>>)

JNull == JVal("null", <<>>, <<>>)

JTrue == JVal("boolean", <<"true">>, <<>>)

JFalse == JVal("boolean", <<"false">>, <<>>)

JStr(chars) == JVal("string", chars, <<>>)

JObj(entries) == JVal("object", <<>>, entries)

\* the raw configuration: null, or an object with these properties
MkRaw(tag, cb, pt, px, fb, tr) ==
  [t |-> tag, contentBase |-> cb, port |-> pt, proxy |-> px,
   historyAPIFallback |-> fb, traceRequests |-> tr]

\* normalizeExpressServeOptions has not been called
NotNormalized == [called |-> FALSE]

\* createServer has not been called with the normalized options
NotStarted == [started |-> FALSE, log |-> <<>>, fallbackHandler |-> FALSE, sendFile |-> "none"]

\* normalization is not looked at by the lifecycle and pipeline specifications
IdleNorm ==
  /\ raw = MkRaw("object", JUndefined, JUndefined, JUndefined, JUndefined, JUndefined)
  /\ fs = [files |-> {}, dirs |-> {}]
  /\ norm = NotNormalized
  /\ again = NotNormalized
  /\ engine = NotStarted

\* the units are not looked at by the other specifications
IdleUnits ==
  /\ unit = "none"
  /\ traceRequests = JFalse
  /\ traced = [seen |-> FALSE, url |-> <<>>, logged |-> FALSE]
  /\ mimeTypes = JObj(<<>>)
  /\ served = [seen |-> FALSE, file |-> <<>>, ext |-> <<>>, contentType |-> JUndefined]
  /\ devtools =
       [uuid |-> 0, projectRoot |-> <<>>, supportWindowsContainer |-> TRUE, env |-> "plain",
        file |-> [exists |-> FALSE, uuid |-> 0, root |-> <<>>], writable |-> TRUE, made |-> 0]
  /\ responses = <<>>
  /\ loggerInstance =
       [made |-> FALSE, level |-> "", silent |-> FALSE, given |-> "", assigned |-> FALSE,
        by |-> ""]
  /\ console = [lvl |-> "", logger |-> loggerInstance, written |-> FALSE]
  /\ loggerFactory = "createLogger"
  /\ logCall = [op |-> "", fn |-> JUndefined, created |-> FALSE, threw |-> FALSE]
  /\ cli = [phase |-> "parse", errorLogged |-> FALSE, helpPrinted |-> FALSE, threw |-> FALSE,
            exit |-> "none"]
  /\ argv = [folder |-> JUndefined]
  /\ config = [contentBase |-> JUndefined]
  /\ display = <<"0">>
  /\ operator = JNull
  /\ firstValue = JNull
  /\ waitingForOperand = FALSE
  /\ expression = <<>>
  /\ keys = <<>>

\* the pipeline is not looked at by the lifecycle specification
IdlePipe ==
  /\ opts = NoOpts
  /\ files = [b \in {} |-> {}]
  /\ stage = 0
  /\ stack = <<>>
  /\ req = NoReq
  /\ idx = 0
  /\ ran = <<>>
  /\ resp = NoResp

\* ----- closeServer(server): src/unnamed/part_002 lines 18-28
\* `if (!server) return Promise.resolve()`: the caller resumes without waiting;
\* otherwise the caller is suspended until the callback of server.close runs.
closeServerPcNoWait(s) == "resolved"

closeServerPc(s) == IF s = 0 THEN "resolved" ELSE "awaitClose"

\* server.close(cb): the listening handle is released at once, cb is registered.
\* (The callback's `server = undefined` assigns closeServer's own parameter:
\*  the controller's variable is not touched.)
\* f: whether responses are in flight on s when its handle is released (a server
\* that is not running accepts nothing: what is in flight on it stays as it is)
closeServerSrv(s, f) ==
  IF s = 0 THEN srv
  ELSE [srv EXCEPT ![s].handle = FALSE, ![s].closing = TRUE, ![s].cbs = @ + 1,
                   ![s].inflight = IF srv[s].handle THEN f ELSE @]

\* the requests a client may have in flight on s when close is called
InFlightChoices(s) == IF s # 0 /\ srv[s].handle THEN BOOLEAN ELSE {FALSE}

\* the part of an async call that runs before its `await closeServer(server)` suspends
AwaitCloseServer(c, kind) ==
  /\ Calls < MaxCalls
  /\ nTask' = nTask + 1
  /\ task' = [task EXCEPT ![nTask + 1] =
       [kind |-> kind, ctl |-> c, pc |-> closeServerPc(server[c]), target |-> server[c],
        live |-> (server[c] # 0 /\ srv[server[c]].handle),
        \* server.close(cb) on a server that is not running calls cb with an error
        cbErr |-> (server[c] # 0 /\ ~srv[server[c]].handle),
        over |-> Pending(c), made |-> 0]]
  /\ \E f \in InFlightChoices(server[c]) : srv' = closeServerSrv(server[c], f)

\* (mutant) startServing that keeps a server that is listening
startServingKeep(c) ==
  IF server[c] # 0 /\ srv[server[c]].handle
  THEN /\ Calls < MaxCalls
       /\ nTask' = nTask + 1
       /\ task' = [task EXCEPT ![nTask + 1] =
            [kind |-> "start", ctl |-> c, pc |-> "done", target |-> server[c],
             live |-> TRUE, cbErr |-> FALSE, over |-> Pending(c), made |-> 0]]
       /\ srv' = srv
  ELSE AwaitCloseServer(c, "start")

\* startServing, up to its await: part_002 lines 247-249
startServing(c) == AwaitCloseServer(c, "start")

\* stopServing: part_002 lines 253-255
stopServing(c) == AwaitCloseServer(c, "stop")

\* ----- server.listen(port, host, cb): part_002 line 228
PortInUse(p) ==
  p # 0 /\ \E s \in Srv : srv[s].handle /\ srv[s].port = p

\* what listen can end in: bound, the port taken (by a server of this process or by
\* a foreign process), or any other error (EACCES stands for all of them)
ListenOutcomes(p) ==
  IF PortInUse(p) THEN {"EADDRINUSE"}
  ELSE {"ok", "EACCES"} \cup (IF p # 0 THEN {"EADDRINUSE"} ELSE {})

\* the port createServer passes to listen: options.port
listenPort(c) == ctlPort[c]

\* (mutant) createServer that serves plain HTTP when the key cannot be read
createServerPlainHttp(c, t, read, out) ==
  /\ nSrv' = nSrv + 1
  /\ srv' = [srv EXCEPT ![nSrv + 1] =
       [owner |-> c, port |-> listenPort(c), tls |-> (read = "read"),
        handle |-> (out = "ok"), inflight |-> FALSE,
        closing |-> FALSE, cbs |-> 0, err |-> (IF out = "ok" THEN "none" ELSE out),
        handled |-> "none", pred |-> task[t].target]]
  /\ server' = [server EXCEPT ![c] = nSrv + 1]
  /\ task' = [task EXCEPT ![t].pc = "done", ![t].made = nSrv + 1]

\* (mutant) createServer that listens again on the server the controller holds
createServerReuse(c, t, read, out) ==
  IF read = "ENOENT"
  THEN /\ task' = [task EXCEPT ![t].pc = "threw"]
       /\ UNCHANGED <<nSrv, srv, server>>
  ELSE IF server[c] # 0
  THEN /\ srv' = [srv EXCEPT ![server[c]].handle = (out = "ok"), ![server[c]].closing = FALSE,
                              ![server[c]].err = (IF out = "ok" THEN "none" ELSE out)]
       /\ task' = [task EXCEPT ![t].pc = "done", ![t].made = server[c]]
       /\ UNCHANGED <<nSrv, server>>
  ELSE /\ nSrv' = nSrv + 1
       /\ srv' = [srv EXCEPT ![nSrv + 1] =
            [owner |-> c, port |-> listenPort(c), tls |-> (read = "read"),
             handle |-> (out = "ok"), inflight |-> FALSE,
             closing |-> FALSE, cbs |-> 0, err |-> (IF out = "ok" THEN "none" ELSE out),
             handled |-> "none", pred |-> task[t].target]]
       /\ server' = [server EXCEPT ![c] = nSrv + 1]
       /\ task' = [task EXCEPT ![t].pc = "done", ![t].made = nSrv + 1]

\* createServer(options) called by task t of controller c: part_002 lines 206-230.
\* The arguments of createHttpsServer are evaluated first: a key or certificate
\* that cannot be read throws out of createServer, and out of startServing, before
\* any server exists and before `server = ...` is assigned.
createServer(c, t, read, out) ==
  IF read = "ENOENT"
  THEN /\ task' = [task EXCEPT ![t].pc = "threw"]
       /\ UNCHANGED <<nSrv, srv, server>>
  ELSE /\ nSrv' = nSrv + 1
       /\ srv' = [srv EXCEPT ![nSrv + 1] =
            [owner |-> c, port |-> listenPort(c), tls |-> (read = "read"),
             handle |-> (out = "ok"), inflight |-> FALSE,
             closing |-> FALSE, cbs |-> 0, err |-> (IF out = "ok" THEN "none" ELSE out),
             handled |-> "none", pred |-> task[t].target]]
       /\ server' = [server EXCEPT ![c] = nSrv + 1]
       /\ task' = [task EXCEPT ![t].pc = "done", ![t].made = nSrv + 1]

\* ----- server.on('error', ...): part_002 lines 218-225
\* EADDRINUSE: log.error and process.exit(); anything else is rethrown
onErrorProcSwallow(code) == IF code = "EADDRINUSE" THEN "exitedAddrInUse" ELSE "running"

onErrorProc(code) == IF code = "EADDRINUSE" THEN "exitedAddrInUse" ELSE "crashed"

\* ================= actions of the lifecycle =================

\* createServing(options): part_002 lines 240-245
CreateServing(c, p, h) ==
  /\ Alive
  /\ Calls < MaxCalls
  /\ ctlState[c] = "absent"
  /\ \A d \in Ctl : d < c => ctlState[d] # "absent"
  /\ ctlState' = [ctlState EXCEPT ![c] = "standalone"]
  /\ ctlPort' = [ctlPort EXCEPT ![c] = p]
  /\ ctlHttps' = [ctlHttps EXCEPT ![c] = h]
  /\ UNCHANGED <<bundle, proc, server, handlers, nSrv, srv, nTask, task, diag, uncaught,
                 pipeVars, normVars, unitVars>>

\* expressServe(options): part_002 lines 287-301 (the CLI does the same, part_004 132-142)
\* createServing, the four termination handlers, then startServing()
ExpressServe(c, p, h) ==
  /\ Alive
  /\ Calls + 1 < MaxCalls
  /\ ctlState[c] = "absent"
  /\ \A d \in Ctl : d < c => ctlState[d] # "absent"
  /\ ctlState' = [ctlState EXCEPT ![c] = "plugin"]
  /\ ctlPort' = [ctlPort EXCEPT ![c] = p]
  /\ ctlHttps' = [ctlHttps EXCEPT ![c] = h]
  /\ handlers' = Append(handlers, c)
  /\ startServing(c)
  /\ UNCHANGED <<bundle, proc, server, nSrv, diag, uncaught, pipeVars, normVars, unitVars>>

\* a caller of a createServing controller calls startServing()
StartServing(c) ==
  /\ Alive
  /\ ctlState[c] = "standalone"
  /\ startServing(c)
  /\ UNCHANGED <<bundle, proc, ctlState, ctlPort, ctlHttps, server, handlers, nSrv, diag, uncaught, pipeVars, normVars, unitVars>>

\* a caller of a createServing controller calls stopServing()
StopServing(c) ==
  /\ Alive
  /\ ctlState[c] = "standalone"
  /\ stopServing(c)
  /\ UNCHANGED <<bundle, proc, ctlState, ctlPort, ctlHttps, server, handlers, nSrv, diag, uncaught, pipeVars, normVars, unitVars>>

\* the 'close' event of server s: every registered callback runs (part_002 lines 22-26)
EmitClose(s) ==
  /\ Alive
  /\ srv[s].cbs > 0
  /\ Drained(s)
  /\ srv' = [srv EXCEPT ![s].cbs = 0]
  /\ task' = [t \in Task |->
       IF task[t].pc = "awaitClose" /\ task[t].target = s
       THEN [task[t] EXCEPT !.pc = IF task[t].cbErr THEN "rejected" ELSE "resolved"]
       ELSE task[t]]
  /\ UNCHANGED <<bundle, proc, ctlState, ctlPort, ctlHttps, server, handlers, nSrv, nTask, diag, uncaught, pipeVars, normVars, unitVars>>

\* startServing resumes after the await: `server = createServer(options)` (line 250)
ResumeStart(t) ==
  /\ Alive
  /\ task[t].kind = "start"
  /\ task[t].pc = "resolved"
  /\ \E out \in ListenOutcomes(listenPort(task[t].ctl)),
        \* fs.readFileSync of the key and the certificate, when options.https is set:
        \* the files are read, or an error is thrown (ENOENT stands for all of them)
        read \in IF ctlHttps[task[t].ctl] THEN {"read", "ENOENT"} ELSE {"none"} :
       createServer(task[t].ctl, t, read, out)
  /\ UNCHANGED <<bundle, proc, ctlState, ctlPort, ctlHttps, handlers, nTask, diag, uncaught, pipeVars, normVars, unitVars>>

\* stopServing resumes after the await and returns (line 255)
ResumeStop(t) ==
  /\ Alive
  /\ task[t].kind = "stop"
  /\ task[t].pc = "resolved"
  /\ task' = [task EXCEPT ![t].pc = "done"]
  /\ UNCHANGED <<bundle, proc, ctlState, ctlPort, ctlHttps, server, handlers, nSrv, srv, nTask, diag, uncaught, pipeVars, normVars, unitVars>>

\* the await throws what closeServer's promise was rejected with: the call fails
Reject(t) ==
  /\ Alive
  /\ task[t].pc = "rejected"
  /\ task' = [task EXCEPT ![t].pc = "failed"]
  /\ UNCHANGED <<bundle, proc, ctlState, ctlPort, ctlHttps, server, handlers, nSrv, srv, nTask, diag, uncaught, pipeVars, normVars, unitVars>>

\* the last in-flight response of s completes and its connection ends
Finish(s) ==
  /\ Alive
  /\ srv[s].inflight
  /\ srv' = [srv EXCEPT ![s].inflight = FALSE]
  /\ UNCHANGED <<bundle, proc, ctlState, ctlPort, ctlHttps, server, handlers, nSrv, nTask, task, diag, uncaught, pipeVars, normVars, unitVars>>

\* the 'error' event of server s reaches the handler of part_002 lines 218-225
ServerError(s) ==
  /\ Alive
  /\ srv[s].err # "none"
  /\ proc' = onErrorProc(srv[s].err)
  /\ diag' = (diag \/ srv[s].err = "EADDRINUSE")
  /\ uncaught' = IF srv[s].err = "EADDRINUSE" THEN uncaught ELSE srv[s].err
  /\ srv' = [srv EXCEPT ![s].err = "none", ![s].handled = srv[s].err]
  /\ UNCHANGED <<bundle, ctlState, ctlPort, ctlHttps, server, handlers, nSrv, nTask, task, pipeVars, normVars, unitVars>>

\* (mutant) generateBundle without the bundleCount guard
GenerateBundleEvery(c) ==
  /\ Alive
  /\ ctlState[c] = "plugin"
  /\ Calls + bundle[c].bundleCount < MaxCalls
  /\ bundle' = [bundle EXCEPT ![c] =
       [bundleCount |-> @.bundleCount + 1, printPaths |-> @.printPaths + 1,
        openPage |-> @.openPage + 1]]
  /\ UNCHANGED <<proc, ctlState, ctlPort, ctlHttps, server, handlers, nSrv, srv, nTask, task,
                 diag, uncaught, pipeVars, normVars, unitVars>>

\* the plugin's generateBundle hook, part_002 lines 307-315: the first call prints
\* the served paths and opens the page, every call counts the bundle
GenerateBundle(c) ==
  /\ Alive
  /\ ctlState[c] = "plugin"
  /\ Calls + bundle[c].bundleCount < MaxCalls
  /\ bundle' = [bundle EXCEPT ![c] =
       IF @.bundleCount = 0
       THEN [bundleCount |-> 1, printPaths |-> @.printPaths + 1, openPage |-> @.openPage + 1]
       ELSE [@ EXCEPT !.bundleCount = @ + 1]]
  /\ UNCHANGED <<proc, ctlState, ctlPort, ctlHttps, server, handlers, nSrv, srv, nTask, task,
                 diag, uncaught, pipeVars, normVars, unitVars>>

\* SIGINT / SIGTERM / SIGQUIT / SIGHUP: part_002 lines 293-299, part_004 134-140.
\* The first registered handler runs `serving.stopServing(); process.exit();`
\* process.exit() follows the call at once: nothing awaits the returned promise.
\* (A signal that finds no handler registered is none of the engine's business.)
Signal ==
  /\ Alive
  /\ handlers # <<>>
  /\ \E f \in InFlightChoices(server[handlers[1]]) :
       srv' = closeServerSrv(server[handlers[1]], f)
  /\ proc' = "exitedSignal"
  /\ UNCHANGED <<bundle, ctlState, ctlPort, ctlHttps, server, handlers, nSrv, nTask, task, diag, uncaught, pipeVars, normVars, unitVars>>

NextLife ==
  \/ \E c \in Ctl, p \in Ports : CreateServing(c, p, FALSE)
  \/ \E c \in Ctl, p \in Ports : ExpressServe(c, p, FALSE)
  \/ \E c \in Ctl : StartServing(c)
  \/ \E c \in Ctl : StopServing(c)
  \/ \E s \in Srv : EmitClose(s)
  \/ \E t \in Task : ResumeStart(t)
  \/ \E t \in Task : ResumeStop(t)
  \/ \E t \in Task : Reject(t)
  \/ \E s \in Srv : Finish(s)
  \/ \E s \in Srv : ServerError(s)
  \/ Signal

(* The plugin in watch mode with TLS configured (SpecHttps): every controller is
   given options.https and the default port, a plugin controller also receives
   the generateBundle calls of the bundler.                                    *)
NextHttps ==
  \/ \E c \in Ctl : CreateServing(c, DefaultPort, TRUE)
  \/ \E c \in Ctl : ExpressServe(c, DefaultPort, TRUE)
  \/ \E c \in Ctl : GenerateBundle(c)
  \/ \E c \in Ctl : StartServing(c)
  \/ \E c \in Ctl : StopServing(c)
  \/ \E s \in Srv : EmitClose(s)
  \/ \E t \in Task : ResumeStart(t)
  \/ \E t \in Task : ResumeStop(t)
  \/ \E t \in Task : Reject(t)
  \/ \E s \in Srv : Finish(s)
  \/ \E s \in Srv : ServerError(s)
  \/ Signal

\* ================= properties of the lifecycle =================

Finished(t) == task[t].pc \in {"done", "failed"}

\* every call on controller c began after the calls before it had finished
Sequential(c) == \A t \in Task : task[t].ctl = c => task[t].over = {}

\* every listen of a server of c succeeded: no 'error' event is waiting or was handled
NoListenError(c) ==
  \A s \in Srv : srv[s].owner = c => srv[s].err = "none" /\ srv[s].handled = "none"

Listening(c) == {s \in Srv : srv[s].owner = c /\ srv[s].handle}

\* C1: a startServing that finds its controller's server listening (a restart) has
\* the old server completely closed (handle released, every connection ended) before
\* the new server is created and calls listen, so old and new are never bound together.
C1_RestartClosesBeforeListen ==
  \A t \in Task :
    (task[t].kind = "start" /\ task[t].live /\ task[t].made # 0) =>
       /\ FullyClosed(task[t].target)
       /\ ~(srv[task[t].made].handle /\ srv[task[t].target].handle)

C1_Witness ==
  \E t \in Task :
    /\ task[t].kind = "start" /\ task[t].live /\ task[t].made # 0
    /\ srv[task[t].made].handle
    /\ srv[task[t].made].pred = task[t].target

\* C2: at most one listening socket created by the engine is live in the process,
\* whatever controllers exist and whatever they were asked to do.
C2_AtMostOneLiveSocket == Cardinality({s \in Srv : srv[s].handle}) <= 1

\* C3: two startServing calls in a row on a controller, the second begun after the
\* first finished, leave exactly one listening socket and one live server instance,
\* the one the controller references.
C3_TwiceStartOneSocket ==
  \A c \in Ctl : \A t1, t2 \in Task :
    ( /\ Alive /\ Sequential(c) /\ NoListenError(c)
      /\ t1 < t2
      /\ task[t1].ctl = c /\ task[t1].kind = "start" /\ Finished(t1)
      /\ task[t2].ctl = c /\ task[t2].kind = "start" /\ Finished(t2)
      /\ \A u \in Task : (task[u].ctl = c /\ u > t1) => u = t2 )
    => /\ server[c] # 0
       /\ Listening(c) = {server[c]}
       /\ \A s \in Srv : (srv[s].owner = c /\ s # server[c]) => FullyClosed(s)

C5_StopReturnsToIdle ==
  \A c \in Ctl : (Sequential(c) /\ NoListenError(c)) =>
    /\ \A t \in Task : task[t].ctl = c => task[t].pc \notin {"rejected", "failed"}
    /\ \A t \in Task :
         ( /\ task[t].ctl = c /\ task[t].kind = "stop" /\ task[t].pc = "done"
           /\ \A u \in Task : task[u].ctl = c => u <= t )
         => server[c] = 0

\* C6: a termination signal lets the server close before the process exits: at the
\* exit no close of a server is pending and no response is in flight.
C6_ExitAfterDrain ==
  proc = "exitedSignal" => \A s \in Srv : srv[s].cbs = 0 /\ ~srv[s].inflight

\* C7: an EADDRINUSE of listen writes the diagnostic and ends the process, with the
\* failed server left unbound; any other server error is rethrown (uncaught, the
\* process crashes); a server is only ever bound to the configured port.
C7_ListenErrorsAreFatal ==
  /\ \A s \in Srv : srv[s].handled = "EADDRINUSE" =>
        proc = "exitedAddrInUse" /\ diag /\ ~srv[s].handle
  /\ \A s \in Srv : srv[s].handled \notin {"none", "EADDRINUSE"} =>
        proc = "crashed" /\ uncaught = srv[s].handled
  /\ \A s \in Srv : srv[s].owner # 0 => srv[s].port = ctlPort[srv[s].owner]
  /\ diag => proc = "exitedAddrInUse"

C7_Witness ==
  \E s \in Srv : srv[s].handled = "EADDRINUSE" /\ ctlPort[srv[s].owner] = DefaultPort

\* C8: of two startServing calls of one controller that overlap (the second begun
\* before the first finished), exactly one creates a server.
C8_OverlappingStartsCreateOne ==
  \A t1, t2 \in Task :
    ( /\ task[t1].kind = "start" /\ task[t2].kind = "start"
      /\ t1 \in task[t2].over
      /\ Finished(t1) /\ Finished(t2) )
    => Cardinality({task[t1].made, task[t2].made} \ {0}) = 1

\* C9: when no call is in progress (each call begun after the one before finished),
\* the controller's reference is set exactly when a server of the controller is
\* listening, and it designates that server.
C9_RefIsTheListeningServer ==
  \A c \in Ctl :
    (Alive /\ Sequential(c) /\ ~Busy(c) /\ NoListenError(c)) =>
       /\ server[c] # 0 => srv[server[c]].handle
       /\ \A s \in Listening(c) : server[c] = s

\* C24: when options.https is set and the key or certificate cannot be read, the
\* startServing call fails: it creates no server, the server it closed stays closed
\* and (calls not overlapping, no later call) no server of the controller listens;
\* every server of a controller with options.https is a TLS server, never plain HTTP.
C24_UnreadableKeyFailsStart ==
  /\ \A t \in Task : task[t].pc = "threw" =>
        /\ task[t].kind = "start" /\ ctlHttps[task[t].ctl]
        /\ task[t].made = 0
        /\ task[t].target # 0 => ~srv[task[t].target].handle
        /\ (Sequential(task[t].ctl) /\ \A u \in Task : task[u].ctl = task[t].ctl => u <= t)
             => Listening(task[t].ctl) = {}
  /\ \A s \in Srv : (srv[s].owner # 0 /\ ctlHttps[srv[s].owner]) => srv[s].tls

\* a restart whose key had become unreadable: the old server is closed, none is new
C24_Witness ==
  \E t \in Task :
    /\ task[t].pc = "threw" /\ task[t].live
    /\ FullyClosed(task[t].target)
    /\ srv[task[t].target].tls
    /\ server[task[t].ctl] = task[t].target

C29_StartOncePrintOnce ==
  \A c \in Ctl : ctlState[c] = "plugin" =>
    /\ Cardinality({t \in Task : task[t].ctl = c /\ task[t].kind = "start"}) = 1
    /\ Cardinality({s \in Srv : srv[s].owner = c}) <= 1
    /\ bundle[c].printPaths = (IF bundle[c].bundleCount = 0 THEN 0 ELSE 1)
    /\ bundle[c].openPage = (IF bundle[c].bundleCount = 0 THEN 0 ELSE 1)

C29_Witness ==
  \E c \in Ctl :
    /\ ctlState[c] = "plugin" /\ bundle[c].bundleCount >= 2
    /\ bundle[c].printPaths = 1 /\ bundle[c].openPage = 1
    /\ \E s \in Srv : srv[s].owner = c /\ srv[s].handle

\* C34: a stopServing begun while a startServing of the same controller is suspended
\* on closing the previous server does not fail, and once both calls have finished
\* (no later call on the controller) no server of the controller is listening.
C34_StopDuringStartLeavesIdle ==
  \A t1, t2 \in Task :
    ( /\ task[t1].kind = "start" /\ task[t2].kind = "stop"
      /\ task[t1].ctl = task[t2].ctl
      /\ t1 \in task[t2].over
      /\ task[t1].target # 0 /\ task[t1].live /\ task[t2].target = task[t1].target
      /\ Finished(t1) /\ Finished(t2)
      /\ \A u \in Task : task[u].ctl = task[t2].ctl => u <= t2 )
    => /\ task[t2].pc # "failed"
       /\ Listening(task[t2].ctl) = {}

\* =====================================================================
\* Part 2 (SpecPipeline): the handler chain createServer registers on the
\* express app (part_002 lines 53-204) and the way a request travels it.
\* Strings are sequences of characters, so that prefixes are real prefixes.
\* =====================================================================

\* ----- bound of the model: the longest options.middleware list
MaxMiddleware == 2

\* the paths of the model; apiconfig is the path of the debugging leftover in pathRewrite
PathOf ==
  [root |-> <<"/">>, f |-> <<"/", "f">>, a |-> <<"/", "a">>, af |-> <<"/", "a", "/", "f">>,
   ab |-> <<"/", "a", "b">>,
   apiconfig |-> <<"/", "a", "p", "i", "/", "c", "o", "n", "f", "i", "g">>]

\* the request paths, methods and Accept preferences of the model
Paths == {PathOf.root, PathOf.f, PathOf.a, PathOf.af, PathOf.ab}
Methods == {"GET", "HEAD", "POST"}

\* the content directories and what they may hold (paths below the directory)
Bases == {"public", "assets"}

FileChoices ==
  {[b \in Bases |-> IF b = "public" THEN fp ELSE fa] :
     fp \in SUBSET {PathOf.f, PathOf.af}, fa \in SUBSET {PathOf.f}}

\* options.contentBase after normalization: directory -> mount, in the order given
ContentBaseChoices ==
  { <<>>,
    <<[base |-> "public", mount |-> PathOf.root]>>,
    <<[base |-> "assets", mount |-> PathOf.a]>>,
    <<[base |-> "public", mount |-> PathOf.root], [base |-> "assets", mount |-> PathOf.a]>>,
    <<[base |-> "assets", mount |-> PathOf.a], [base |-> "public", mount |-> PathOf.root]>>,
    <<[base |-> "public", mount |-> PathOf.root], [base |-> "assets", mount |-> PathOf.root]>> }

\* options.proxy after normalization: the route prefixes, in declaration order
ProxyChoices ==
  { <<>>,
    <<[route |-> PathOf.a, target |-> "http://localhost:9000", stripPrefix |-> TRUE]>> }

\* options.historyAPIFallback after normalization: undefined, or {path, routes}
\* file tells what historyAPIFallback.path is: "file", the absolute path of a file
\* (a literal path was given); "relative", the default 'index.html' that no
\* root-mounted directory holds (the content directories of the model hold none)
FallbackChoices ==
  { [fallback |-> "off", routes |-> <<>>, file |-> "none"],
    [fallback |-> "on", routes |-> <<>>, file |-> "file"],
    [fallback |-> "on", routes |-> <<PathOf.a>>, file |-> "file"],
    [fallback |-> "on", routes |-> <<>>, file |-> "relative"] }

OptionChoices ==
  {[trace |-> tr, headers |-> hd, middleware |-> mw, contentBase |-> cb,
    proxy |-> px, fallback |-> fb.fallback, routes |-> fb.routes,
    fallbackFile |-> fb.file] :
     tr \in BOOLEAN, hd \in BOOLEAN, mw \in 0..MaxMiddleware,
     cb \in ContentBaseChoices, px \in ProxyChoices, fb \in FallbackChoices}

\* String.prototype.startsWith / indexOf(prefix) === 0
StartsWith(s, pre) == Len(pre) <= Len(s) /\ SubSeq(s, 1, Len(pre)) = pre

\* app.use(mount, handler): the layer matches the mount and what lies below it
MountMatches(m, p) ==
  \/ m = PathOf.root
  \/ StartsWith(p, m) /\ (Len(p) = Len(m) \/ p[Len(m) + 1] = "/")

\* the url the mounted handler sees: the mount is cut off
StripMount(m, p) ==
  IF m = PathOf.root THEN p
  ELSE IF Len(p) = Len(m) THEN PathOf.root
  ELSE SubSeq(p, Len(m) + 1, Len(p))

Layer(kind, ix) == [kind |-> kind, ix |-> ix]

(* the blocks of createServer, in the order of the code:
   lines 53-108 tracing, 110-118 headers, 120-123 middleware,
   125-138 static, 140-180 proxy, 182-204 SPA fallback            *)
createServerOrderProxyFirst ==
  <<"trace", "headers", "middleware", "proxy", "static", "fallback">>

createServerOrder ==
  <<"trace", "headers", "middleware", "static", "proxy", "fallback">>

\* what a block registers on the app, given the options
LayersOf(kind) ==
  CASE kind = "trace" ->
         IF opts.trace THEN <<Layer("trace", 0)>> ELSE <<>>
    [] kind = "headers" ->
         IF opts.headers THEN <<Layer("headers", 0)>> ELSE <<>>
    [] kind = "middleware" ->
         [i \in 1..opts.middleware |-> Layer("middleware", i)]
    [] kind = "static" ->
         [i \in 1..Len(opts.contentBase) |-> Layer("static", i)]
    [] kind = "proxy" ->
         <<Layer("proxy", 0)>>
    [] kind = "fallback" ->
         IF opts.fallback = "off" THEN <<>>
         ELSE IF Len(opts.routes) > 0
              THEN [i \in 1..Len(opts.routes) |-> Layer("fallback", i)]
              ELSE <<Layer("fallback", 0)>>

Serving == stage = Len(createServerOrder) + 1

\* express.static(path.resolve(base)) mounted at mount: part_002 lines 126-137
StaticMount(l) == opts.contentBase[l.ix].mount

StaticServes(l, r) ==
  /\ r.method \in {"GET", "HEAD"}
  /\ MountMatches(StaticMount(l), r.path)
  /\ StripMount(StaticMount(l), r.path) \in files[opts.contentBase[l.ix].base]

\* pathFilter: proxyRoutes (part_002 lines 142, 149): a configured route is a prefix
ProxyMatches(r) ==
  \E i \in 1..Len(opts.proxy) : StartsWith(r.path, opts.proxy[i].route)

FallbackLayerMatchesAny(l, r) == TRUE

\* app.use(fallbackRequestHandler) sees every request; app.get(route, ...) sees the
\* GET and HEAD requests of its route (part_002 lines 199-203)
FallbackLayerMatches(l, r) ==
  \/ l.ix = 0
  \/ r.method \in {"GET", "HEAD"} /\ r.path = opts.routes[l.ix]

FallbackServesAnything(r) == TRUE

\* fallbackRequestHandler's condition: part_002 line 192
FallbackServes(r) == r.method \in {"GET", "HEAD"} /\ r.html

\* s contains sub: String.prototype.indexOf(sub) > -1
Contains(s, sub) ==
  \E k \in 0..(Len(s) - Len(sub)) : SubSeq(s, k + 1, k + Len(sub)) = sub

(* router: routerMap (part_002 lines 143, 150). The proxy library walks the
   entries of the table in their order and takes the first whose key occurs in
   host + path; the keys begin with "/" and a host holds no "/", so the key
   occurs in the path.                                                      *)
router(r) ==
  LET matches == {i \in 1..Len(opts.proxy) : Contains(r.path, opts.proxy[i].route)}
  IN opts.proxy[CHOOSE i \in matches : \A j \in matches : i <= j].target

\* pathRewrite (part_002 lines 153-156): `true || ...` makes the branch unconditional
pathRewrite(p, r) == PathOf.apiconfig

\* proxyRes (part_002 lines 166-176): fullTargetUrl = req.originalUrl
fullTargetUrl(r) == [target |-> "", path |-> r.path]

\* whether express calls the handler of layer l for request r
LayerMatches(l, r) ==
  CASE l.kind = "static" -> MountMatches(StaticMount(l), r.path)
    [] l.kind = "fallback" -> FallbackLayerMatches(l, r)
    [] OTHER -> TRUE

InitPipe ==
  /\ opts \in OptionChoices
  /\ files \in FileChoices
  /\ stage = 1
  /\ stack = <<>>
  /\ req = NoReq
  /\ idx = 0
  /\ ran = <<>>
  /\ resp = NoResp

\* ----- createServer registers its blocks one after the other
Register(kind) ==
  /\ stage <= Len(createServerOrder)
  /\ createServerOrder[stage] = kind
  /\ stack' = stack \o LayersOf(kind)
  /\ stage' = stage + 1
  /\ UNCHANGED <<opts, files, req, idx, ran, resp, lifeVars, normVars, unitVars>>

RegisterTrace == Register("trace")

RegisterHeaders == Register("headers")

RegisterMiddleware == Register("middleware")

RegisterStatic == Register("static")

RegisterProxy == Register("proxy")

RegisterFallback == Register("fallback")

\* ----- a request arrives at the app of a listening server
Arrive(m, p, h) ==
  /\ Serving
  /\ req = NoReq
  /\ req' = [method |-> m, path |-> p, html |-> h]
  /\ idx' = 1
  /\ ran' = <<>>
  /\ resp' = NoResp
  /\ UNCHANGED <<opts, files, stage, stack, lifeVars, normVars, unitVars>>

AtLayer(kind) ==
  /\ req # NoReq
  /\ resp = NoResp
  /\ idx <= Len(stack)
  /\ stack[idx].kind = kind

\* next(): the request goes on to the following layer
PassOn ==
  /\ idx' = idx + 1
  /\ ran' = Append(ran, idx)
  /\ resp' = resp

\* the layer does not match the request: express does not call its handler
SkipLayer ==
  /\ idx' = idx + 1
  /\ ran' = ran
  /\ resp' = resp

Answer(source) ==
  /\ resp' = Reply(source, idx)
  /\ idx' = idx
  /\ ran' = ran

\* the proxy forwards the request and tags the upstream's response
AnswerProxy ==
  /\ resp' = [source |-> "proxy", by |-> idx, upstream |-> router(req),
              path |-> pathRewrite(req.path, req), trace |-> fullTargetUrl(req)]
  /\ idx' = idx
  /\ ran' = ran

\* morgan(format, ...): part_002 lines 100-107; it only observes
HandleTrace ==
  /\ AtLayer("trace")
  /\ PassOn
  /\ UNCHANGED <<opts, files, stage, stack, req, lifeVars, normVars, unitVars>>

\* the custom headers: part_002 lines 112-117
HandleHeaders ==
  /\ AtLayer("headers")
  /\ PassOn
  /\ UNCHANGED <<opts, files, stage, stack, req, lifeVars, normVars, unitVars>>

\* a user middleware answers the request or passes it on: part_002 line 122
HandleMiddleware ==
  /\ AtLayer("middleware")
  /\ \/ Answer("middleware")
     \/ PassOn
  /\ UNCHANGED <<opts, files, stage, stack, req, lifeVars, normVars, unitVars>>

\* express.static: part_002 lines 127-137
HandleStatic ==
  /\ AtLayer("static")
  /\ IF ~LayerMatches(stack[idx], req) THEN SkipLayer
     ELSE IF StaticServes(stack[idx], req) THEN Answer("static")
     ELSE PassOn
  /\ UNCHANGED <<opts, files, stage, stack, req, lifeVars, normVars, unitVars>>

\* createProxyMiddleware: part_002 lines 145-179
HandleProxy ==
  /\ AtLayer("proxy")
  /\ IF ProxyMatches(req) THEN AnswerProxy ELSE PassOn
  /\ UNCHANGED <<opts, files, stage, stack, req, lifeVars, normVars, unitVars>>

(* res.sendFile(fallbackPath), part_002 line 195: the file is sent when the path
   is the absolute path of a file; a path that is not absolute makes sendFile
   throw, and the request ends in an error response of express             *)
sendFile == IF opts.fallbackFile = "file" THEN "spa-fallback" ELSE "spa-fallback-error"

\* fallbackRequestHandler: part_002 lines 191-197
HandleFallback ==
  /\ AtLayer("fallback")
  /\ IF ~LayerMatches(stack[idx], req) THEN SkipLayer
     ELSE IF FallbackServes(req) THEN Answer(sendFile)
     ELSE PassOn
  /\ UNCHANGED <<opts, files, stage, stack, req, lifeVars, normVars, unitVars>>

\* no layer answered: express ends the request with 404
NotFound ==
  /\ req # NoReq
  /\ resp = NoResp
  /\ idx > Len(stack)
  /\ resp' = Reply("404", 0)
  /\ UNCHANGED <<opts, files, stage, stack, req, idx, ran, lifeVars, normVars, unitVars>>

\* the response is sent; the next request can be looked at
Complete ==
  /\ resp # NoResp
  /\ req' = NoReq
  /\ idx' = 0
  /\ ran' = <<>>
  /\ resp' = NoResp
  /\ UNCHANGED <<opts, files, stage, stack, lifeVars, normVars, unitVars>>

NextPipe ==
  \/ RegisterTrace
  \/ RegisterHeaders
  \/ RegisterMiddleware
  \/ RegisterStatic
  \/ RegisterProxy
  \/ RegisterFallback
  \/ \E m \in Methods, p \in Paths, h \in BOOLEAN : Arrive(m, p, h)
  \/ HandleTrace
  \/ HandleHeaders
  \/ HandleMiddleware
  \/ HandleStatic
  \/ HandleProxy
  \/ HandleFallback
  \/ NotFound
  \/ Complete

InitPipeline == InitLife /\ InitPipe /\ IdleNorm /\ IdleUnits

SpecPipeline == InitPipeline /\ [][NextPipe]_vars

\* =====================================================================
\* Part 3 (SpecProxy): the same chain with every handler in place and the
\* proxy table varied, to look at what the proxy forwards and reports.
\* =====================================================================

\* ----- bound of the model: the longest proxy table
MaxProxyRoutes == 2

\* the upstream of the i-th entry of a table
Upstreams == <<"http://localhost:9000", "http://localhost:9001", "http://localhost:9002">>

\* the tables: the keys of options.proxy in declaration order, no key twice
ProxyTableChoices ==
  LET RouteLists ==
        {rs \in UNION {[1..n -> {PathOf.a, PathOf.ab, PathOf.f}] : n \in 1..MaxProxyRoutes} :
           \A i, j \in DOMAIN rs : i # j => rs[i] # rs[j]}
  IN {[i \in DOMAIN rs |-> [route |-> rs[i], target |-> Upstreams[i], stripPrefix |-> sp[i]]] :
        rs \in RouteLists, sp \in [1..MaxProxyRoutes -> BOOLEAN]}

ProxyOptionChoices ==
  {[trace |-> TRUE, headers |-> TRUE, middleware |-> 1,
    contentBase |-> <<[base |-> "public", mount |-> PathOf.root]>>,
    proxy |-> px, fallback |-> "on", routes |-> <<>>, fallbackFile |-> "file"] :
     px \in ProxyTableChoices}

InitProxy ==
  /\ InitLife
  /\ IdleNorm
  /\ IdleUnits
  /\ opts \in ProxyOptionChoices
  /\ files \in FileChoices
  /\ stage = 1
  /\ stack = <<>>
  /\ req = NoReq
  /\ idx = 0
  /\ ran = <<>>
  /\ resp = NoResp

SpecProxy == InitProxy /\ [][NextPipe]_vars

\* ================= properties of the proxy =================

\* the entries whose route is a prefix of the request path
PrefixMatches(r) == {i \in 1..Len(opts.proxy) : StartsWith(r.path, opts.proxy[i].route)}

\* the request path is <prefix> or <prefix>/<rest> for the route of entry i
BelowRoute(i, r) == MountMatches(opts.proxy[i].route, r.path)

\* <prefix>/<rest> without the prefix: /<rest>, or / when nothing is left
WithoutPrefix(route, p) ==
  IF Len(p) = Len(route) THEN PathOf.root ELSE SubSeq(p, Len(route) + 1, Len(p))

\* what entry i is to forward for request r
ExpectedPath(i, r) ==
  IF opts.proxy[i].stripPrefix THEN WithoutPrefix(opts.proxy[i].route, r.path) ELSE r.path

\* the longest matching prefix, the first declared among those of equal length
LongestMatch(r) ==
  CHOOSE i \in PrefixMatches(r) :
    \A j \in PrefixMatches(r) :
       \/ Len(opts.proxy[i].route) > Len(opts.proxy[j].route)
       \/ Len(opts.proxy[i].route) = Len(opts.proxy[j].route) /\ i <= j

\* C11: a proxied request to <prefix> or <prefix>/<rest>, with that prefix the only
\* route that matches, is forwarded as /<rest> (or /) when the entry has
\* stripPrefix = true and with its original path when it has stripPrefix = false.
C11_ForwardedPath ==
  resp.source = "proxy" =>
    \A i \in PrefixMatches(req) :
       (PrefixMatches(req) = {i} /\ BelowRoute(i, req)) => resp.path = ExpectedPath(i, req)

\* C12: a proxied response is tagged source = proxy and its trace target is the
\* upstream the request went to joined with the path that was forwarded.
C12_TraceTargetIsUpstreamUrl ==
  resp.source = "proxy" => resp.trace = [target |-> resp.upstream, path |-> resp.path]

\* C13: a proxied request goes to the target of the longest route that is a prefix
\* of its path (the first declared among routes of equal length).
C13_LongestPrefixWins ==
  resp.source = "proxy" => resp.upstream = opts.proxy[LongestMatch(req)].target

\* ================= properties of the pipeline =================

\* the precedence the handlers are to have
Rank(kind) ==
  CASE kind = "trace" -> 1
    [] kind = "headers" -> 2
    [] kind = "middleware" -> 3
    [] kind = "static" -> 4
    [] kind = "proxy" -> 5
    [] kind = "fallback" -> 6

Kinds(k) == {i \in 1..Len(stack) : stack[i].kind = k}

\* some configured content directory holds a file for the request
StaticAvailable(r) ==
  \E i \in 1..Len(opts.contentBase) : StaticServes(Layer("static", i), r)

\* the sources of a response the fallback handler gave
FallbackSources == {"spa-fallback", "spa-fallback-error"}

\* a request the fallback is meant for: GET or HEAD, accepting html
Qualifies(r) == r.method \in {"GET", "HEAD"} /\ r.html

C15_FallbackOnlyForHtmlGetHead ==
  /\ resp.source \in FallbackSources => Qualifies(req)
  /\ (req # NoReq /\ ~Qualifies(req)) =>
        \A i \in 1..Len(stack) :
           (stack[i].kind = "fallback" /\ i < idx /\ LayerMatches(stack[i], req)) =>
              \E k \in 1..Len(ran) : ran[k] = i
  /\ (resp # NoResp /\ ~Qualifies(req) /\ resp.source \notin {"middleware", "static", "proxy"}) =>
        resp.source = "404"

\* a POST, or a GET that does not accept html, went through the fallback handler
\* and ended unanswered
C15_Witness ==
  /\ opts.fallback = "on" /\ opts.routes = <<>>
  /\ resp.source = "404"
  /\ req.method \in {"POST", "GET"}
  /\ \E k \in 1..Len(ran) : stack[ran[k]].kind = "fallback"

\* C10: the chain is registered in the order tracing, headers, user middleware (list
\* order), static roots (contentBase order), proxy, fallback, each present exactly when
\* the options enable it; a handler answers only after every earlier layer that matches
\* the request has run and passed it on; so a static file shadows a proxy route, and
\* the fallback answers only what neither a static root nor the proxy answers.
C10_PipelineOrder ==
  /\ Serving =>
       /\ \A i, j \in 1..Len(stack) : i < j =>
            /\ Rank(stack[i].kind) <= Rank(stack[j].kind)
            /\ stack[i].kind = stack[j].kind => stack[i].ix < stack[j].ix
       /\ Cardinality(Kinds("trace")) = (IF opts.trace THEN 1 ELSE 0)
       /\ Cardinality(Kinds("headers")) = (IF opts.headers THEN 1 ELSE 0)
       /\ Cardinality(Kinds("middleware")) = opts.middleware
       /\ Cardinality(Kinds("static")) = Len(opts.contentBase)
       /\ Cardinality(Kinds("fallback")) =
            (IF opts.fallback = "off" THEN 0
             ELSE IF opts.routes = <<>> THEN 1 ELSE Len(opts.routes))
  /\ resp.by # 0 =>
       \A i \in 1..(resp.by - 1) :
          LayerMatches(stack[i], req) => \E k \in 1..Len(ran) : ran[k] = i
  /\ (resp # NoResp /\ StaticAvailable(req)) => resp.source \in {"static", "middleware"}
  /\ resp.source = "spa-fallback" => ~ProxyMatches(req) /\ ~StaticAvailable(req)
  /\ resp.source = "404" => ~ProxyMatches(req) /\ ~StaticAvailable(req)

\* a static file answers a request that a proxy route matches too, with user
\* middleware, tracing and headers in front of it
C10_Witness ==
  /\ resp.source = "static"
  /\ ProxyMatches(req)
  /\ opts.middleware > 0 /\ opts.trace /\ opts.headers /\ opts.fallback = "on"
  /\ Len(opts.contentBase) > 1

\* C26: the source tag and the trace target stay inside the trace subsystem: the
\* response a client receives carries no x-trace-source and no x-trace-target header.
\* (The handlers stamp the tags with res.setHeader, so `source` and `trace` of a
\* response are headers of the response that is sent.)
C26_TagsNotInResponse ==
  resp # NoResp =>
    /\ resp.source \notin {"static", "proxy", "spa-fallback"}
    /\ resp.trace = NoUrl

\* =====================================================================
\* Part 4 (SpecNormalize): normalizeExpressServeOptions and its helpers
\* (part_003), as functions over JavaScript values.
\* =====================================================================

\* typeof
TypeOf(v) == IF v.t \in {"null", "array"} THEN "object" ELSE v.t

\* the values that count as true in a condition
Truthy(v) ==
  /\ v.t \notin {"undefined", "null"}
  /\ v # JFalse
  /\ ~(v.t = "string" /\ v.s = <<>>)
  /\ ~(v.t = "number" /\ v.s = <<"0">>)

Digits == <<"0", "1", "2", "3", "4", "5", "6", "7", "8", "9">>

RECURSIVE NumVal(_)
NumVal(s) ==
  IF s = <<>> THEN 0
  ELSE Len(Digits) * NumVal(SubSeq(s, 1, Len(s) - 1))
       + (CHOOSE d \in DOMAIN Digits : Digits[d] = s[Len(s)]) - 1

\* a property key that is a canonical array index: these keys come first, in
\* ascending numeric order, when the own keys of an object are listed
IsArrayIndex(k) ==
  /\ k # <<>>
  /\ \A i \in DOMAIN k : \E d \in DOMAIN Digits : Digits[d] = k[i]
  /\ Len(k) = 1 \/ k[1] # "0"

KeysOf(es) == {es[i].k : i \in DOMAIN es}

\* the value assigned last to key k
LastValue(es, k) ==
  es[CHOOSE i \in DOMAIN es : es[i].k = k /\ \A j \in DOMAIN es : es[j].k = k => j <= i].val

\* the order of own keys: array indices by value, then the others as first assigned
KeyBefore(es, a, b) ==
  LET FirstAt(k) ==
        CHOOSE i \in DOMAIN es : es[i].k = k /\ \A j \in DOMAIN es : es[j].k = k => i <= j
  IN \/ IsArrayIndex(a) /\ IsArrayIndex(b) /\ NumVal(a) < NumVal(b)
     \/ IsArrayIndex(a) /\ ~IsArrayIndex(b)
     \/ ~IsArrayIndex(a) /\ ~IsArrayIndex(b) /\ FirstAt(a) < FirstAt(b)

RECURSIVE SortKeys(_, _)
SortKeys(es, S) ==
  IF S = {} THEN <<>>
  ELSE LET m == CHOOSE k \in S : \A j \in S \ {k} : KeyBefore(es, k, j)
       IN <<m>> \o SortKeys(es, S \ {m})

\* the own properties of the object built by the assignments es, as
\* Object.entries / Object.keys / for-in list them
OwnEntries(es) ==
  LET ks == SortKeys(es, KeysOf(es))
  IN [i \in DOMAIN ks |-> [k |-> ks[i], val |-> LastValue(es, ks[i])]]

\* Object.entries(v) for a value that is not null or undefined
ObjectEntries(v) ==
  CASE v.t = "object" -> OwnEntries(v.l)
    [] v.t = "array" -> [i \in DOMAIN v.l |-> [k |-> <<Digits[i]>>, val |-> v.l[i]]]
    [] v.t = "string" -> [i \in DOMAIN v.s |-> [k |-> <<Digits[i]>>, val |-> JStr(<<v.s[i]>>)]]
    [] OTHER -> <<>>

\* v[k] for a value that is not null or undefined
Get(v, k) ==
  IF v.t = "object" /\ k \in KeysOf(v.l) THEN LastValue(v.l, k) ELSE JUndefined

IsSpace(c) == c \in {" ", "\t", "\n"}

\* String.prototype.trim
RECURSIVE trim(_)
trim(s) ==
  IF s # <<>> /\ IsSpace(s[1]) THEN trim(Tail(s))
  ELSE IF s # <<>> /\ IsSpace(s[Len(s)]) THEN trim(SubSeq(s, 1, Len(s) - 1))
  ELSE s

\* what a helper gives: the value it returns, or a thrown TypeError
Returned(v) == [threw |-> FALSE, value |-> v]

Thrown == [threw |-> TRUE, value |-> <<>>]

\* mount || '/', then the leading slash: part_003 lines 62-64
normalizedMount(mount) ==
  LET normalized == IF Truthy(mount) THEN mount.s ELSE PathOf.root
  IN IF StartsWith(normalized, PathOf.root) THEN normalized ELSE PathOf.root \o normalized

\* the entries of a normalized contentBase, as [base, mount] in their order
AsContentBase(es) == [i \in DOMAIN es |-> [base |-> es[i].k, mount |-> es[i].val]]

(* part_003 lines 50-69. Object.entries(null) throws; startsWith is called on
   whatever a truthy mount is, and throws when that is no string            *)
normalizeContentBase(contentBase) ==
  IF contentBase.t = "string"
  THEN Returned(<<[base |-> contentBase.s, mount |-> PathOf.root]>>)
  ELSE IF contentBase.t = "array" /\ \A i \in DOMAIN contentBase.l : contentBase.l[i].t = "string"
  THEN Returned(AsContentBase(OwnEntries(
         [i \in DOMAIN contentBase.l |-> [k |-> contentBase.l[i].s, val |-> PathOf.root]])))
  ELSE IF TypeOf(contentBase) = "object" /\ contentBase.t # "array"
  THEN IF contentBase.t = "null" THEN Thrown
       ELSE LET es == ObjectEntries(contentBase)
            IN IF \E i \in DOMAIN es : Truthy(es[i].val) /\ es[i].val.t # "string" THEN Thrown
               ELSE Returned(AsContentBase(OwnEntries(
                      [i \in DOMAIN es |-> [k |-> es[i].k, val |-> normalizedMount(es[i].val)]])))
  ELSE Returned(<<>>)

\* the property names the normalizer reads
K ==
  [target |-> <<"t", "a", "r", "g", "e", "t">>,
   stripPrefix |-> <<"s", "t", "r", "i", "p", "P", "r", "e", "f", "i", "x">>,
   path |-> <<"p", "a", "t", "h">>,
   routes |-> <<"r", "o", "u", "t", "e", "s">>,
   format |-> <<"f", "o", "r", "m", "a", "t">>,
   filter |-> <<"f", "i", "l", "t", "e", "r">>]

\* part_003 lines 77-92: the kept entries, in the order of the result's keys
normalizeProxy(proxy) ==
  LET keeps(value) ==
        IF value.t = "string" THEN trim(value.s) # <<>>
        ELSE /\ Truthy(value)
             /\ Get(value, K.target).t = "string"
             /\ trim(Get(value, K.target).s) # <<>>
      entry(route, value) ==
        IF value.t = "string"
        THEN [route |-> route, target |-> value.s, stripPrefix |-> JFalse]
        ELSE [route |-> route, target |-> Get(value, K.target).s,
              stripPrefix |-> IF Get(value, K.stripPrefix).t \in {"undefined", "null"}
                              THEN JFalse ELSE Get(value, K.stripPrefix)]
      es == ObjectEntries(IF Truthy(proxy) THEN proxy ELSE JObj(<<>>))
      kept == SelectSeq(es, LAMBDA en : keeps(en.val))
      result == OwnEntries([i \in DOMAIN kept |->
                  [k |-> kept[i].k, val |-> entry(kept[i].k, kept[i].val)]])
  IN Returned([i \in DOMAIN result |-> result[i].val])

\* what normalization logs: part_003 imports no logger and writes nothing
normalizeLog == <<>>

\* ----- paths: strings with "/" between the names
Cwd == <<"/", "w">>

F_index == <<"i", "n", "d", "e", "x", ".", "h", "t", "m", "l">>

\* path.isAbsolute
isAbsolute(p) == StartsWith(p, PathOf.root)

\* path.join of a directory and a name
join(dir, name) == dir \o PathOf.root \o name

\* path.resolve(p): relative paths are taken from the working directory
resolve(p) ==
  IF isAbsolute(p) THEN p
  ELSE IF p = <<>> THEN Cwd
  ELSE join(Cwd, p)

\* path.resolve(base, name) for a relative name
resolveIn(base, name) == IF base = <<>> THEN resolve(name) ELSE resolve(join(base, name))

\* fs.existsSync(p) && fs.statSync(p).isFile() / .isDirectory()
isFile(p) == resolve(p) \in fs.files

isDirectory(p) == resolve(p) \in fs.dirs

NoFallback == [on |-> FALSE, path |-> <<>>, routes |-> <<>>]

\* part_003 lines 96-108: the shape given
fallbackRoutes(fallback) ==
  IF fallback = JTrue THEN [on |-> TRUE, path |-> F_index, routes |-> <<>>]
  ELSE IF fallback.t = "string" THEN [on |-> TRUE, path |-> fallback.s, routes |-> <<>>]
  ELSE IF fallback.t = "array" THEN [on |-> TRUE, path |-> F_index, routes |-> fallback.l]
  ELSE IF Truthy(fallback) /\ TypeOf(fallback) = "object"
  THEN [on |-> TRUE,
        path |-> IF Get(fallback, K.path).t = "string" THEN Get(fallback, K.path).s ELSE F_index,
        routes |-> IF Get(fallback, K.routes).t = "array" THEN Get(fallback, K.routes).l ELSE <<>>]
  ELSE NoFallback

(* part_003 lines 109-129: the default file is taken from the first root-mounted
   directory that has it and stays as it is when none has; any other path is
   resolved, with index.html added to a directory                            *)
fallbackPath(given, content) ==
  LET roots == {i \in DOMAIN content :
                  content[i].mount = PathOf.root /\ isFile(resolveIn(content[i].base, F_index))}
  IN IF given = F_index
     THEN IF roots # {}
          THEN resolveIn(content[CHOOSE i \in roots : \A j \in roots : i <= j].base, F_index)
          ELSE given
     ELSE IF isDirectory(resolve(given)) THEN resolve(join(resolve(given), F_index))
     ELSE resolve(given)

\* part_003 lines 94-131
normalizeHistoryFallback(fallback, content) ==
  IF fallbackRoutes(fallback).on
  THEN [fallbackRoutes(fallback) EXCEPT !.path = fallbackPath(@, content)]
  ELSE NoFallback

NoTrace == [on |-> FALSE, format |-> JUndefined, filter |-> <<>>]

\* part_003 lines 133-142: the object branch reads trace.format of null too
normalizeTraceRequests(trace) ==
  IF trace = JTrue THEN Returned([on |-> TRUE, format |-> JUndefined, filter |-> <<>>])
  ELSE IF trace.t \in {"string", "function"}
  THEN Returned([on |-> TRUE, format |-> trace, filter |-> <<>>])
  ELSE IF TypeOf(trace) = "object"
  THEN IF trace.t = "null" THEN Thrown
       ELSE Returned([on |-> TRUE, format |-> Get(trace, K.format),
                      filter |-> IF Get(trace, K.filter).t = "array" THEN Get(trace, K.filter).l
                                 ELSE <<Get(trace, K.filter)>>])
  ELSE Returned(NoTrace)

\* the call threw a TypeError
NormalizeThrew ==
  [called |-> TRUE, threw |-> TRUE, contentBase |-> <<>>, port |-> 0, proxy |-> <<>>,
   historyAPIFallback |-> NoFallback, traceRequests |-> NoTrace, log |-> <<>>]

\* part_003 lines 31-48
normalizeExpressServeOptions(r) ==
  IF r.t = "null" THEN NormalizeThrew
  ELSE LET content == normalizeContentBase(r.contentBase)
           trace == normalizeTraceRequests(r.traceRequests)
       IN IF content.threw \/ trace.threw THEN NormalizeThrew
          ELSE [called |-> TRUE, threw |-> FALSE,
                contentBase |-> content.value,
                port |-> IF r.port.t \in {"undefined", "null"} THEN DefaultPort
                         ELSE NumVal(r.port.s),
                proxy |-> normalizeProxy(r.proxy).value,
                historyAPIFallback |-> normalizeHistoryFallback(r.historyAPIFallback, content.value),
                traceRequests |-> trace.value,
                log |-> normalizeLog]

\* ----- the raw configurations and file systems of the model
\* the names of directories, a file and an upstream
N ==
  [pub |-> <<"p", "u", "b">>, as |-> <<"a", "s">>, seven |-> <<"7">>, ten |-> <<"1", "0">>,
   app |-> <<"a", "p", "p", ".", "h", "t", "m", "l">>,
   up |-> <<"h", "t", "t", "p", ":", "/", "/", "u", "p">>,
   dev |-> <<"d", "e", "v">>]

Prop(k, v) == [k |-> k, val |-> v]

\* the content directories and the fallback vary together; so do the other options
RawChoices ==
  LET five == JVal("number", <<"5">>, <<>>)
      JArr(items) == JVal("array", <<>>, items)
      ContentBases ==
        { JUndefined, JNull, five,
          JStr(N.pub), JStr(N.seven),
          JArr(<<JStr(N.pub), JStr(N.as)>>),
          JArr(<<JStr(N.as), JStr(N.pub), JStr(N.as)>>),
          JArr(<<JStr(N.pub), JStr(N.seven)>>),
          JArr(<<JStr(N.ten), JStr(N.seven)>>),
          JArr(<<JStr(N.pub), five>>),
          JObj(<<Prop(N.pub, JStr(PathOf.root)), Prop(N.as, JStr(<<"a">>))>>),
          JObj(<<Prop(N.as, JStr(PathOf.a)), Prop(N.pub, JStr(<<>>))>>),
          JObj(<<Prop(N.pub, JStr(PathOf.a)), Prop(N.seven, JStr(PathOf.root))>>),
          JObj(<<Prop(N.pub, JUndefined)>>),
          JObj(<<Prop(N.pub, five)>>) }
      PortValues ==
        { JUndefined, JVal("number", <<"0">>, <<>>), JVal("number", <<"8", "0">>, <<>>) }
      Proxies ==
        { JUndefined, JNull,
          JObj(<<Prop(PathOf.a, JStr(N.up))>>),
          JObj(<<Prop(PathOf.a, JObj(<<Prop(K.target, JStr(N.up)), Prop(K.stripPrefix, JTrue)>>))>>),
          JObj(<<Prop(PathOf.a, JObj(<<Prop(K.target, JStr(N.up))>>))>>),
          JObj(<<Prop(PathOf.a, JStr(<<>>))>>),
          JObj(<<Prop(PathOf.a, JStr(<<" ">>)), Prop(PathOf.f, JStr(N.up))>>),
          JObj(<<Prop(PathOf.a, JObj(<<Prop(K.target, five)>>))>>),
          JObj(<<Prop(PathOf.a, JObj(<<Prop(K.stripPrefix, JTrue)>>))>>),
          JObj(<<Prop(PathOf.a, JNull), Prop(PathOf.f, JObj(<<Prop(K.target, JStr(<<" ", " ">>))>>))>>),
          JObj(<<Prop(PathOf.f, JStr(N.up)),
                 Prop(PathOf.a, JObj(<<Prop(K.target, JStr(N.up)), Prop(K.stripPrefix, JFalse)>>))>>) }
      Fallbacks ==
        { JUndefined, JFalse, JNull, JTrue,
          JStr(N.app), JStr(N.pub), JStr(F_index), JStr(join(Cwd, N.app)),
          JArr(<<JStr(PathOf.a)>>),
          JObj(<<>>),
          JObj(<<Prop(K.routes, JArr(<<JStr(PathOf.a)>>))>>),
          JObj(<<Prop(K.path, JStr(N.app)), Prop(K.routes, JArr(<<JStr(PathOf.a)>>))>>) }
      Traces ==
        { JUndefined, JFalse, JNull, JTrue,
          JStr(N.dev),
          JObj(<<Prop(K.filter, JStr(PathOf.a))>>),
          JObj(<<Prop(K.format, JStr(N.dev)), Prop(K.filter, JArr(<<JStr(PathOf.a)>>))>>) }
  IN {MkRaw("null", JUndefined, JUndefined, JUndefined, JUndefined, JUndefined)}
     \cup {MkRaw("object", cb, JUndefined, JUndefined, fb, JUndefined) :
             cb \in ContentBases, fb \in Fallbacks}
     \cup {MkRaw("object", JUndefined, pt, px, JUndefined, tr) :
             pt \in PortValues, px \in Proxies, tr \in Traces}

\* (a directory may hold a directory named index.html where no file of that name is)
FsChoices ==
  UNION {
    {[files |-> f, dirs |-> {Cwd, join(Cwd, N.pub), join(Cwd, N.as)} \cup d] :
       d \in SUBSET ({join(join(Cwd, N.pub), F_index)} \ f)} :
    f \in SUBSET {join(Cwd, F_index), join(Cwd, N.app),
                  join(join(Cwd, N.pub), F_index), join(join(Cwd, N.as), F_index)} }

InitNorm ==
  /\ InitLife
  /\ IdlePipe
  /\ IdleUnits
  /\ raw \in RawChoices
  /\ fs \in FsChoices
  /\ norm = NotNormalized
  /\ again = NotNormalized
  /\ engine = NotStarted

\* createServing / the plugin normalize the raw options once
Normalize ==
  /\ ~norm.called
  /\ norm' = normalizeExpressServeOptions(raw)
  /\ UNCHANGED <<raw, fs, engine, again, lifeVars, pipeVars, unitVars>>

\* the record normalizeExpressServeOptions returned is normalized once more (the
\* file system as it was): part_003 lines 31-48 on the object the first call built
NormalizeAgain ==
  LET RECURSIVE digits(_)
      digits(k) == IF k < 10 THEN <<Digits[k + 1]>>
                   ELSE digits(k \div 10) \o <<Digits[(k % 10) + 1]>>
      array(items) == JVal("array", <<>>, items)
      contentBase == JObj([i \in DOMAIN norm.contentBase |->
                        Prop(norm.contentBase[i].base, JStr(norm.contentBase[i].mount))])
      proxy == JObj([i \in DOMAIN norm.proxy |->
                  Prop(norm.proxy[i].route,
                       JObj(<<Prop(K.target, JStr(norm.proxy[i].target)),
                              Prop(K.stripPrefix, norm.proxy[i].stripPrefix)>>))])
      fallback == IF norm.historyAPIFallback.on
                  THEN JObj(<<Prop(K.path, JStr(norm.historyAPIFallback.path)),
                              Prop(K.routes, array(norm.historyAPIFallback.routes))>>)
                  ELSE JUndefined
      trace == IF norm.traceRequests.on
               THEN JObj(<<Prop(K.format, norm.traceRequests.format),
                           Prop(K.filter, array(norm.traceRequests.filter))>>)
               ELSE JFalse
  IN /\ norm.called
     /\ ~norm.threw
     /\ ~again.called
     /\ again' = normalizeExpressServeOptions(
                   MkRaw("object", contentBase, JVal("number", digits(norm.port), <<>>),
                         proxy, fallback, trace))
     /\ UNCHANGED <<raw, fs, norm, engine, lifeVars, pipeVars, unitVars>>

(* createServer's fallback block, part_002 lines 183-204: with a fallback record
   in the options it looks for the file as the path stands, logs an error when
   it is not accessible and registers the handler in either case. sendFile tells
   what res.sendFile(fallbackPath) does for a qualifying request: a path that is
   not absolute makes it throw, a missing file makes it fail                  *)
createServerFallback(fb) ==
  IF fb.on
  THEN [started |-> TRUE,
        log |-> IF isFile(fb.path) THEN <<>> ELSE <<"error">>,
        fallbackHandler |-> TRUE,
        sendFile |-> IF ~isAbsolute(fb.path) THEN "TypeError"
                     ELSE IF isFile(fb.path) THEN "file"
                     ELSE "ENOENT"]
  ELSE [started |-> TRUE, log |-> <<>>, fallbackHandler |-> FALSE, sendFile |-> "none"]

\* the engine is started with the normalized options
CreateServerFallback ==
  /\ norm.called
  /\ ~norm.threw
  /\ ~engine.started
  /\ engine' = createServerFallback(norm.historyAPIFallback)
  /\ UNCHANGED <<raw, fs, norm, again, lifeVars, pipeVars, unitVars>>

NextNorm ==
  \/ Normalize
  \/ NormalizeAgain
  \/ CreateServerFallback

SpecNormalize == InitNorm /\ [][NextNorm]_vars

\* ================= properties of normalization =================

\* the fallback was asked for with the default file: true, a routes list, or an
\* object without a path
DefaultFallbackRequested ==
  LET fb == raw.historyAPIFallback
  IN \/ fb = JTrue
     \/ fb.t = "array"
     \/ fb.t = "object" /\ K.path \notin KeysOf(fb.l)

\* no root-mounted content directory holds index.html
NoRootIndex ==
  \A i \in DOMAIN norm.contentBase :
     norm.contentBase[i].mount = PathOf.root =>
        join(resolve(norm.contentBase[i].base), F_index) \notin fs.files

\* C16: when the fallback is asked for with the default file and no root-mounted
\* content directory holds index.html, the engine starts with a diagnostic and
\* without a fallback handler, so that no request is answered or failed by it.
C16_MissingDefaultDisablesFallback ==
  (engine.started /\ DefaultFallbackRequested /\ NoRootIndex) =>
     /\ engine.log # <<>>
     /\ ~engine.fallbackHandler

\* the literal path the user named, if one was named
LiteralPath ==
  LET fb == raw.historyAPIFallback
  IN IF fb.t = "string" THEN fb.s ELSE Get(fb, K.path).s

LiteralPathGiven ==
  LET fb == raw.historyAPIFallback
  IN fb.t = "string" \/ (fb.t = "object" /\ Get(fb, K.path).t = "string")

\* C17: the path of a normalized fallback is absolute; a literal path that is an
\* existing directory becomes <dir>/index.html, any other literal path is the
\* file named, in absolute form.
C17_FallbackPathAbsolute ==
  (norm.called /\ ~norm.threw /\ norm.historyAPIFallback.on) =>
     /\ isAbsolute(norm.historyAPIFallback.path)
     /\ LiteralPathGiven =>
          norm.historyAPIFallback.path =
             (IF resolve(LiteralPath) \in fs.dirs
              THEN join(resolve(LiteralPath), F_index) ELSE resolve(LiteralPath))

\* the directories of a raw contentBase in the order given, each once
RECURSIVE Distinct(_)
Distinct(seq) ==
  IF seq = <<>> THEN <<>>
  ELSE LET front == Distinct(SubSeq(seq, 1, Len(seq) - 1))
       IN IF \E i \in DOMAIN front : front[i] = seq[Len(seq)] THEN front
          ELSE Append(front, seq[Len(seq)])

GivenDirs ==
  LET cb == raw.contentBase
  IN CASE cb.t = "string" -> <<cb.s>>
       [] cb.t = "array" -> Distinct([i \in DOMAIN cb.l |-> cb.l[i].s])
       [] cb.t = "object" -> Distinct([i \in DOMAIN cb.l |-> cb.l[i].k])

\* the mount the directory is to get
GivenMount(dir) ==
  LET cb == raw.contentBase
  IN IF cb.t = "object"
     THEN LET m == LastValue(cb.l, dir)
          IN IF m.s = <<>> THEN PathOf.root
             ELSE IF m.s[1] = "/" THEN m.s ELSE <<"/">> \o m.s
     ELSE PathOf.root

\* a string, a list of strings, or a mapping whose mounts are strings (or absent)
WellFormedContentBase ==
  LET cb == raw.contentBase
  IN \/ cb.t = "string"
     \/ cb.t = "array" /\ \A i \in DOMAIN cb.l : cb.l[i].t = "string"
     \/ cb.t = "object" /\ \A i \in DOMAIN cb.l : cb.l[i].val.t \in {"string", "undefined"}

\* C18: a well-formed contentBase is normalized to a mapping that holds every given
\* directory once, in the order given, with "/" for string and list entries and the
\* mount of a mapping entry with a leading "/"; every mount starts with "/".
C18_ContentBaseCanonical ==
  (norm.called /\ raw.t = "object" /\ WellFormedContentBase) =>
     /\ ~norm.threw
     /\ [i \in DOMAIN norm.contentBase |-> norm.contentBase[i].base] = GivenDirs
     /\ \A i \in DOMAIN norm.contentBase :
          /\ norm.contentBase[i].mount = GivenMount(norm.contentBase[i].base)
          /\ norm.contentBase[i].mount[1] = "/"

\* the entries of the raw proxy mapping
RawProxyEntries == IF raw.proxy.t = "object" THEN OwnEntries(raw.proxy.l) ELSE <<>>

\* an entry with a usable target: a non-blank string, bare or as .target
HasTarget(v) ==
  \/ v.t = "string" /\ \E i \in DOMAIN v.s : ~IsSpace(v.s[i])
  \/ /\ v.t = "object"
     /\ Get(v, K.target).t = "string"
     /\ \E i \in DOMAIN Get(v, K.target).s : ~IsSpace(Get(v, K.target).s[i])

\* what an entry with a usable target is to become
ExpectedProxy(en) ==
  IF en.val.t = "string"
  THEN [route |-> en.k, target |-> en.val.s, stripPrefix |-> JFalse]
  ELSE [route |-> en.k, target |-> Get(en.val, K.target).s,
        stripPrefix |-> IF K.stripPrefix \in KeysOf(en.val.l)
                        THEN Get(en.val, K.stripPrefix) ELSE JFalse]

\* C19: proxy normalization keeps exactly the entries with a usable target, a bare
\* string as {target, stripPrefix: false} and an object with its stripPrefix (false
\* when omitted); it never throws, and it reports a dropped entry with a warning.
C19_ProxyNormalized ==
  (norm.called /\ raw.t = "object" /\ ~norm.threw) =>
     /\ {norm.proxy[i] : i \in DOMAIN norm.proxy} =
          {ExpectedProxy(RawProxyEntries[i]) :
             i \in {j \in DOMAIN RawProxyEntries : HasTarget(RawProxyEntries[j].val)}}
     /\ (\E i \in DOMAIN RawProxyEntries : ~HasTarget(RawProxyEntries[i].val)) =>
          \E k \in DOMAIN norm.log : norm.log[k] = "warn"

\* C20: normalizeExpressServeOptions returns a record and does not throw for any raw
\* configuration object, whatever the values of its options.
C20_NormalizeNeverThrows ==
  (norm.called /\ raw.t = "object") => ~norm.threw

\* C33: normalizing the record that normalization returned (the file system
\* unchanged) succeeds and gives the same contentBase, port, proxy,
\* historyAPIFallback and traceRequests.
C33_NormalizeIdempotent ==
  again.called =>
    /\ ~again.threw
    /\ again.contentBase = norm.contentBase
    /\ again.port = norm.port
    /\ again.proxy = norm.proxy
    /\ again.historyAPIFallback = norm.historyAPIFallback
    /\ again.traceRequests = norm.traceRequests

\* =====================================================================
\* Part 5 (SpecUnits): the parts of the engine that work on one request or one
\* call at a time: the trace filter of createServer (part_002 85-107), resolveMime
\* (part_002 43-51, 128-134), the DevTools workspace endpoint
\* (plugins/express-serve-devtools.mjs), the logger (plugins/expressServe.mjs
\* 276-476) and the command line's failure handler and --folder override (part_004).
\* =====================================================================

\* ----- bound of the model: the requests the DevTools endpoint answers
MaxRequests == 3

\* ----- bound of the model: the longest --folder argument
MaxFolder == 5

\* ----- the trace filter.
\* morgan is registered when options.traceRequests is truthy (part_002 54); its
\* `skip` is built from the normalized filter list (lines 85-98):
\*   patterns: the string entries that are not blank, trimmed;
\*   url: req.originalUrl up to the first '?';
\*   micromatch.isMatch(url, patterns): some pattern matches the whole url; a
\*   pattern without glob characters matches only itself, `<p>/**` matches <p> and
\*   everything below it; an empty pattern list matches nothing.
TraceRequest(u) ==
  LET n == normalizeTraceRequests(traceRequests)
      filter == n.value.filter
      patterns == SelectSeq(filter, LAMBDA f : f.t = "string" /\ trim(f.s) # <<>>)
      split(x) == IF \E i \in DOMAIN x : x[i] = "?"
                  THEN SubSeq(x, 1, (CHOOSE i \in DOMAIN x :
                                       x[i] = "?" /\ \A j \in 1..(i - 1) : x[j] # "?") - 1)
                  ELSE x
      isGlobstar(p) == Len(p) >= 3 /\ SubSeq(p, Len(p) - 2, Len(p)) = <<"/", "*", "*">>
      isMatch(x, p) ==
        IF isGlobstar(p)
        THEN LET base == SubSeq(p, 1, Len(p) - 3)
             IN StartsWith(x, base) /\ (Len(x) = Len(base) \/ x[Len(base) + 1] = "/")
        ELSE x = p
      skip == IF Len(filter) > 0
              THEN ~\E i \in DOMAIN patterns : isMatch(split(u), trim(patterns[i].s))
              ELSE FALSE
  IN /\ unit = "trace"
     /\ ~n.threw
     /\ n.value.on
     /\ traced' = [seen |-> TRUE, url |-> u, logged |-> ~skip]
     /\ UNCHANGED <<unit, traceRequests, mimeTypes, served, devtools, responses, loggerInstance,
                    console, loggerFactory, logCall, cli, argv, config, display, operator, firstValue,
                    waitingForOperand, expression, keys, lifeVars, pipeVars, normVars>>

\* ----- express.static's setHeaders, part_002 128-134, with resolveMime (43-51).
\* path.extname: from the last '.' on, '' when there is none or it leads the name;
\* defaultLookup: the table of mime-types, false for an extension it does not know.
SetHeaders(filePath) ==
  LET lower == [c \in {"M", "W", "A", "S"} |->
                  CASE c = "M" -> "m" [] c = "W" -> "w" [] c = "A" -> "a" [] c = "S" -> "s"]
      toLowerCase(x) == [i \in DOMAIN x |-> IF x[i] \in DOMAIN lower THEN lower[x[i]] ELSE x[i]]
      dots == {i \in DOMAIN filePath : filePath[i] = "." /\ i > 1}
      extname == IF dots = {} THEN <<>>
                 ELSE SubSeq(filePath, CHOOSE i \in dots : \A j \in dots : j <= i, Len(filePath))
      ext == toLowerCase(extname)
      defaultLookup ==
        CASE ext = <<".", "w", "a", "s", "m">> -> JStr(<<"application/wasm">>)
          [] ext = <<".", "h", "t", "m">> -> JStr(<<"text/html">>)
          [] OTHER -> JFalse
      custom == Get(mimeTypes, ext)
      resolveMime ==
        IF custom.t = "string" THEN custom
        ELSE IF custom.t = "array"
        THEN (IF Len(custom.l) > 0 THEN custom.l[1] ELSE JUndefined)
        ELSE IF Truthy(defaultLookup) THEN defaultLookup
        ELSE JStr(<<"application/octet-stream">>)
  IN /\ unit = "mime"
     /\ served' = [seen |-> TRUE, file |-> filePath, ext |-> ext, contentType |-> resolveMime]
     /\ UNCHANGED <<unit, traceRequests, traced, mimeTypes, devtools, responses, loggerInstance,
                    console, loggerFactory, logCall, cli, argv, config, display, operator, firstValue,
                    waitingForOperand, expression, keys, lifeVars, pipeVars, normVars>>

\* ----- router.get(ENDPOINT, ...) of the DevTools plugin, devtools.mjs 128-134,
\* with loadOrCreateWorkspaceData (70-125) and normalizeWorkspacePath (39-61).
\* A uuid is a number: 0 no uuid (falsy), below 0 a string that uuidValidate
\* rejects, above 0 a valid one; uuidV4() gives a uuid never seen before. Paths are
\* sequences of separators and names; the plugin runs on a POSIX platform (WSL,
\* Docker or plain), so path.join / path.resolve know '/' only.
GetDevtools ==
  LET o == devtools
      unc == <<"\\", "\\", "wsl.localhost", "\\">>
      swap(x, from, to) == [i \in DOMAIN x |-> IF x[i] = from THEN to ELSE x[i]]
      pathResolve(x) == IF x[1] = "/" THEN x ELSE Cwd \o <<"/">> \o x
      relative(x) == Tail(pathResolve(x))
      normalizeWorkspacePath(projectRoot) ==
        IF o.supportWindowsContainer /\ o.env = "wsl"
        THEN swap(unc \o <<"distro", "/">> \o relative(projectRoot), "/", "\\")
        ELSE IF o.supportWindowsContainer /\ o.env = "docker"
                /\ ~StartsWith(projectRoot, <<"\\", "\\">>)
        THEN swap(unc \o <<"docker-desktop-data", "/">> \o relative(projectRoot), "/", "\\")
        ELSE swap(pathResolve(projectRoot), "\\", "/")
      \* parsed.workspace?.uuid && parsed.workspace?.root, else workspace stays null
      loaded == o.file.exists /\ o.file.uuid # 0 /\ o.file.root # <<>>
      fresh == ~(o.uuid > 0) /\ ~(loaded /\ o.file.uuid > 0)
      uuid == IF o.uuid > 0 THEN o.uuid
              ELSE IF loaded /\ o.file.uuid > 0 THEN o.file.uuid
              ELSE o.made + 1
      root == normalizeWorkspacePath(
                IF o.projectRoot # <<>> THEN o.projectRoot
                ELSE IF loaded THEN o.file.root
                ELSE Cwd)
      persist == o.uuid = 0 /\ ~o.file.exists /\ o.writable
  IN /\ unit = "devtools"
     /\ Len(responses) < MaxRequests
     /\ responses' = Append(responses, [root |-> root, uuid |-> uuid])
     /\ devtools' = [o EXCEPT !.made = IF fresh THEN @ + 1 ELSE @,
                              !.file = IF persist
                                       THEN [exists |-> TRUE, uuid |-> uuid, root |-> root]
                                       ELSE @]
     /\ UNCHANGED <<unit, traceRequests, traced, mimeTypes, served, loggerInstance, console,
                    loggerFactory, logCall, cli, argv, config, display, operator, firstValue,
                    waitingForOperand, expression, keys, lifeVars, pipeVars, normVars>>

\* ----- the logger, console fallback (winston not installed).
\* createLogger, expressServe.mjs 276-282 and 401-411: a level that is none of
\* loggingLevels.levels becomes 'info'. `by` names the factory that made the logger.
createLogger(level, silent) ==
  [made |-> TRUE,
   level |-> IF level \in {"error", "warn", "verbose", "info", "debug"} THEN level ELSE "info",
   silent |-> silent, given |-> level, assigned |-> FALSE, by |-> "createLogger"]

\* log.<prop>(arg, ...): the Proxy's get trap (461-467) and LoggerController.log
\* (444-451) on a controller holding `instance` and `factory`; the getter `logger`
\* (426-428) calls the factory when there is no instance (a registered factory is
\* taken to build a logger of the console logger's shape). Then the console logger's
\* log (374-399): nothing when silent, nothing when
\* levels[lvl] > levels[consoleLogger.level]; a level that is no key of `levels`
\* gives undefined there and the comparison is false
log(prop, arg, instance, factory) ==
  LET levels == [error |-> 0, warn |-> 1, verbose |-> 2, info |-> 3, debug |-> 4]
      lvl == IF prop # "log" THEN prop ELSE arg
      logger == IF instance.made THEN instance
                ELSE [createLogger("", FALSE) EXCEPT !.by = factory]
      greater(a, b) == a \in DOMAIN levels /\ b \in DOMAIN levels /\ levels[a] > levels[b]
  IN IF lvl \in DOMAIN levels
     THEN [threw |-> FALSE, lvl |-> lvl, logger |-> logger, created |-> ~instance.made,
           written |-> ~logger.silent /\ ~greater(lvl, logger.level)]
     ELSE [threw |-> TRUE, lvl |-> lvl, logger |-> instance, created |-> FALSE,
           written |-> FALSE]

\* log.config(options): expressServe.mjs 431-433
Config(level, silent) ==
  /\ unit = "logger"
  /\ loggerInstance' = [createLogger(level, silent) EXCEPT !.by = loggerFactory]
  /\ logCall' = [op |-> "config", fn |-> JUndefined, created |-> TRUE,
                 threw |-> FALSE]
  /\ UNCHANGED <<unit, traceRequests, traced, mimeTypes, served, devtools, responses, console,
                 loggerFactory, cli, argv, config, display, operator, firstValue,
                 waitingForOperand, expression, keys, lifeVars, pipeVars, normVars>>

\* log.register(factoryFn): expressServe.mjs 436-442
register(factoryFn) ==
  LET throws == Truthy(factoryFn) /\ TypeOf(factoryFn) # "function"
  IN /\ unit = "logger"
     /\ loggerFactory' =
          IF throws THEN loggerFactory
          ELSE IF Truthy(factoryFn) THEN "custom" ELSE "createLogger"
     /\ loggerInstance' =
          IF throws THEN loggerInstance
          ELSE [made |-> FALSE, level |-> "", silent |-> FALSE, given |-> "",
                assigned |-> FALSE, by |-> ""]
     /\ logCall' = [op |-> "register", fn |-> factoryFn, created |-> FALSE,
                    threw |-> throws]
     /\ UNCHANGED <<unit, traceRequests, traced, mimeTypes, served, devtools, responses,
                    console, cli, argv, config, display, operator, firstValue,
                    waitingForOperand, expression, keys, lifeVars, pipeVars, normVars>>

\* log.level = value: the Proxy's set trap (469-473) assigns target.logger.level,
\* the getter `logger` (426-428) creating the logger when there is none
SetLevel(value) ==
  /\ unit = "logger"
  /\ loggerInstance' =
       [(IF loggerInstance.made THEN loggerInstance
         ELSE [createLogger("", FALSE) EXCEPT !.by = loggerFactory])
          EXCEPT !.level = value, !.assigned = TRUE]
  /\ logCall' = [op |-> "level", fn |-> JUndefined,
                 created |-> ~loggerInstance.made, threw |-> FALSE]
  /\ UNCHANGED <<unit, traceRequests, traced, mimeTypes, served, devtools, responses, console,
                 loggerFactory, cli, argv, config, display, operator, firstValue,
                 waitingForOperand, expression, keys, lifeVars, pipeVars, normVars>>

\* (mutant) a console logger without the threshold
LogEverything(prop, arg) ==
  LET r == log(prop, arg, loggerInstance, loggerFactory)
  IN /\ unit = "logger"
     /\ loggerInstance' = r.logger
     /\ console' = IF r.threw THEN console
                   ELSE [lvl |-> r.lvl, logger |-> r.logger, written |-> ~r.logger.silent]
     /\ logCall' = [op |-> "log", fn |-> JUndefined, created |-> r.created,
                    threw |-> r.threw]
     /\ UNCHANGED <<unit, traceRequests, traced, mimeTypes, served, devtools, responses,
                    loggerFactory, cli, argv, config, display, operator, firstValue,
                    waitingForOperand, expression, keys, lifeVars, pipeVars, normVars>>

\* a caller calls log.<prop>(arg): log.info(msg), log.log('info', msg), ...
Log(prop, arg) ==
  LET r == log(prop, arg, loggerInstance, loggerFactory)
  IN /\ unit = "logger"
     /\ loggerInstance' = r.logger
     /\ console' = IF r.threw THEN console
                   ELSE [lvl |-> r.lvl, logger |-> r.logger, written |-> r.written]
     /\ logCall' = [op |-> "log", fn |-> JUndefined, created |-> r.created,
                    threw |-> r.threw]
     /\ UNCHANGED <<unit, traceRequests, traced, mimeTypes, served, devtools, responses,
                    loggerFactory, cli, argv, config, display, operator, firstValue,
                    waitingForOperand, expression, keys, lifeVars, pipeVars, normVars>>

\* ----- the command line (part_004). yargs calls the handler given to .fail when
\* parsing fails (.strict(): an unknown option): lines 74-78. The logger is the
\* module's `log`, on which nothing was called before. log.log(yargs.help()) reaches
\* LoggerController.log with level 'log' and the help as args[0]: the help is no key
\* of `levels`, so the call throws and process.exit(1) is not reached.
fail ==
  LET error == log("error", "msg", loggerInstance, loggerFactory)
      help == log("log", "help", error.logger, loggerFactory)
      last == IF ~help.threw THEN help ELSE error
  IN /\ unit = "cli"
     /\ cli.phase = "parse"
     /\ loggerInstance' = help.logger
     /\ console' = [lvl |-> last.lvl, logger |-> last.logger, written |-> last.written]
     /\ logCall' = [op |-> "log", fn |-> JUndefined,
                    created |-> error.created \/ help.created, threw |-> help.threw]
     /\ cli' = [phase |-> "failed", errorLogged |-> error.written,
                helpPrinted |-> ~help.threw /\ help.written, threw |-> help.threw,
                exit |-> IF help.threw THEN "none" ELSE "exit(1)"]
     /\ UNCHANGED <<unit, traceRequests, traced, mimeTypes, served, devtools, responses,
                    loggerFactory, argv, config, display, operator, firstValue,
                    waitingForOperand, expression, keys, lifeVars, pipeVars, normVars>>

\* (mutant) --folder without the default url of an entry that names none
folderNoDefaultUrl ==
  LET RECURSIVE split(_, _)
      split(s, sep) ==
        IF \A i \in DOMAIN s : s[i] # sep THEN <<s>>
        ELSE LET at == CHOOSE i \in DOMAIN s : s[i] = sep /\ \A j \in 1..(i - 1) : s[j] # sep
             IN <<SubSeq(s, 1, at - 1)>> \o split(SubSeq(s, at + 1, Len(s)), sep)
      pieces == split(argv.folder.s, ",")
      entries == SelectSeq([i \in DOMAIN pieces |-> trim(pieces[i])], LAMBDA e : e # <<>>)
      includes(e) == \E i \in DOMAIN e : e[i] = ":"
      pair(entry) ==
        LET parts == split(entry, ":")
        IN Prop(trim(parts[1]), JStr(trim(IF Len(parts) >= 2 THEN parts[2] ELSE <<>>)))
      contentBase ==
        IF \E i \in DOMAIN entries : includes(entries[i])
        THEN JObj([i \in DOMAIN entries |-> pair(entries[i])])
        ELSE IF Len(entries) > 1
        THEN JVal("array", <<>>, [i \in DOMAIN entries |-> JStr(entries[i])])
        ELSE IF entries = <<>> THEN JUndefined ELSE JStr(entries[1])
  IN /\ unit = "cli"
     /\ cli.phase = "parse"
     /\ cli' = [cli EXCEPT !.phase = "configured"]
     /\ config' = IF argv.folder = JUndefined THEN config
                  ELSE [config EXCEPT !.contentBase = contentBase]
     /\ UNCHANGED <<unit, traceRequests, traced, mimeTypes, served, devtools, responses,
                    loggerInstance, console, loggerFactory, logCall, argv, display,
                    operator, firstValue, waitingForOperand, expression, keys,
                    lifeVars, pipeVars, normVars>>

\* the arguments parsed, the overrides are applied: --folder, part_004 lines 112-129.
\* split, trim, filter(Boolean); with a ':' in any entry each entry is split at its
\* colons into [dir, url] (what follows a second colon is dropped) and
\* acc[dir.trim()] = (url || '/').trim(); else the list, or the one entry
\* (undefined when there is none)
folder ==
  LET RECURSIVE split(_, _)
      split(s, sep) ==
        IF \A i \in DOMAIN s : s[i] # sep THEN <<s>>
        ELSE LET at == CHOOSE i \in DOMAIN s : s[i] = sep /\ \A j \in 1..(i - 1) : s[j] # sep
             IN <<SubSeq(s, 1, at - 1)>> \o split(SubSeq(s, at + 1, Len(s)), sep)
      pieces == split(argv.folder.s, ",")
      entries == SelectSeq([i \in DOMAIN pieces |-> trim(pieces[i])], LAMBDA e : e # <<>>)
      includes(e) == \E i \in DOMAIN e : e[i] = ":"
      pair(entry) ==
        LET parts == split(entry, ":")
            url == IF Len(parts) >= 2 /\ parts[2] # <<>> THEN parts[2] ELSE <<"/">>
        IN Prop(trim(parts[1]), JStr(trim(url)))
      contentBase ==
        IF \E i \in DOMAIN entries : includes(entries[i])
        THEN JObj([i \in DOMAIN entries |-> pair(entries[i])])
        ELSE IF Len(entries) > 1
        THEN JVal("array", <<>>, [i \in DOMAIN entries |-> JStr(entries[i])])
        ELSE IF entries = <<>> THEN JUndefined ELSE JStr(entries[1])
  IN /\ unit = "cli"
     /\ cli.phase = "parse"
     /\ cli' = [cli EXCEPT !.phase = "configured"]
     /\ config' = IF argv.folder = JUndefined THEN config
                  ELSE [config EXCEPT !.contentBase = contentBase]
     /\ UNCHANGED <<unit, traceRequests, traced, mimeTypes, served, devtools, responses,
                    loggerInstance, console, loggerFactory, logCall, argv, display,
                    operator, firstValue, waitingForOperand, expression, keys,
                    lifeVars, pipeVars, normVars>>

\* ----- the options, requests and environments of the model
InitUnits ==
  LET filterOf(f) == JObj(<<Prop(K.filter, f)>>)
      list(items) == JVal("array", <<>>, items)
      Traces ==
        { JTrue, JStr(N.dev), JVal("function", <<>>, <<>>),
          JObj(<<>>), JObj(<<Prop(K.format, JStr(N.dev))>>),
          filterOf(list(<<>>)),
          filterOf(JStr(PathOf.a)),
          filterOf(list(<<JStr(PathOf.a), JStr(PathOf.f)>>)),
          filterOf(list(<<JStr(<<" ", "/", "a", " ">>)>>)),
          filterOf(list(<<JStr(<<" ">>), JVal("number", <<"5">>, <<>>)>>)),
          filterOf(list(<<JStr(<<"/", "a", "/", "*", "*">>)>>)),
          JObj(<<Prop(K.format, JStr(N.dev)), Prop(K.filter, JStr(PathOf.f))>>) }
      wasm == <<".", "w", "a", "s", "m">>
      Mimes ==
        { JObj(<<>>),
          JObj(<<Prop(wasm, JStr(<<"application/wasm">>))>>),
          JObj(<<Prop(wasm, JStr(<<"x/custom">>))>>),
          JObj(<<Prop(wasm, list(<<JStr(<<"x/first">>), JStr(<<"x/second">>)>>))>>),
          JObj(<<Prop(wasm, list(<<>>))>>),
          JObj(<<Prop(<<".", "W", "A", "S", "M">>, JStr(<<"x/upper">>))>>),
          JObj(<<Prop(<<".", "z">>, JStr(<<"x/z">>)), Prop(<<".", "h", "t", "m">>, JTrue)>>) }
      Files ==
        { [exists |-> FALSE, uuid |-> 0, root |-> <<>>],
          [exists |-> TRUE, uuid |-> 0, root |-> <<>>],
          [exists |-> TRUE, uuid |-> 200, root |-> <<"/", "q">>],
          [exists |-> TRUE, uuid |-> 0 - 2, root |-> <<"/", "q">>] }
      \* --folder: absent, or any string of at most MaxFolder of these characters
      Folders ==
        {JUndefined} \cup
        UNION { {JStr(f) : f \in [1..n -> {"a", "/", ":", ",", " "}]} : n \in 0..MaxFolder }
  IN /\ InitLife
     /\ IdlePipe
     /\ IdleNorm
     /\ unit \in {"trace", "mime", "devtools", "logger", "cli"}
     /\ traceRequests \in IF unit = "trace" THEN Traces ELSE {JFalse}
     /\ traced = [seen |-> FALSE, url |-> <<>>, logged |-> FALSE]
     /\ mimeTypes \in IF unit = "mime" THEN Mimes ELSE {JObj(<<>>)}
     /\ served = [seen |-> FALSE, file |-> <<>>, ext |-> <<>>, contentType |-> JUndefined]
     /\ devtools \in
          IF unit = "devtools"
          THEN [uuid : {0, 0 - 1, 100}, projectRoot : {<<>>, <<"/", "p">>},
                supportWindowsContainer : BOOLEAN, env : {"plain", "wsl", "docker"},
                file : Files, writable : BOOLEAN, made : {0}]
          ELSE {[uuid |-> 0, projectRoot |-> <<>>, supportWindowsContainer |-> TRUE,
                 env |-> "plain", file |-> [exists |-> FALSE, uuid |-> 0, root |-> <<>>],
                 writable |-> TRUE, made |-> 0]}
     /\ responses = <<>>
     /\ loggerInstance =
          [made |-> FALSE, level |-> "", silent |-> FALSE, given |-> "", assigned |-> FALSE,
           by |-> ""]
     /\ console = [lvl |-> "", logger |-> loggerInstance, written |-> FALSE]
     /\ loggerFactory = "createLogger"
     /\ logCall = [op |-> "", fn |-> JUndefined, created |-> FALSE, threw |-> FALSE]
     /\ cli = [phase |-> "parse", errorLogged |-> FALSE, helpPrinted |-> FALSE,
               threw |-> FALSE, exit |-> "none"]
     /\ argv \in IF unit = "cli" THEN {[folder |-> f] : f \in Folders}
                  ELSE {[folder |-> JUndefined]}
     /\ config = [contentBase |-> JUndefined]
     /\ display = <<"0">>
     /\ operator = JNull
     /\ firstValue = JNull
     /\ waitingForOperand = FALSE
     /\ expression = <<>>
     /\ keys = <<>>

NextUnits ==
  \/ \E u \in { PathOf.root, PathOf.a, PathOf.f, PathOf.af, PathOf.ab, <<"/", "a", "?", "f">>,
               <<"/", "f", "?", "/", "a">>, <<"/", "a", "/", "f", "?", "x">> } : TraceRequest(u)
  \/ \E f \in { <<"m", ".", "w", "a", "s", "m">>, <<"M", ".", "W", "A", "S", "M">>,
               <<"a", ".", "h", "t", "m">>, <<"a", ".", "z">>, <<"a", ".", "q">>, <<"a">>,
               <<".", "w", "a", "s", "m">> } : SetHeaders(f)
  \/ GetDevtools
  \/ \E l \in {"", "error", "debug", "silly"}, s \in BOOLEAN :
       Config(l, s)
  \/ \E v \in {"error", "warn", "verbose", "info", "debug", "silly"} : SetLevel(v)
  \/ \E l \in {"error", "warn", "verbose", "info", "debug", "silly"} : Log(l, "msg")
  \/ \E l \in {"debug", "msg"} : Log("log", l)
  \/ \E fn \in { JUndefined, JVal("function", <<>>, <<>>), JStr(<<"f">>), JNull,
                  JVal("number", <<"0">>, <<>>) } : register(fn)
  \/ fail
  \/ folder

SpecUnits == InitUnits /\ [][NextUnits]_vars

\* ================= properties of the units =================

\* the filter the user configured, and the patterns it names (trimmed, blanks dropped)
FilterOption == Get(traceRequests, K.filter)

ConfiguredPatterns ==
  IF FilterOption.t = "string" THEN {trim(FilterOption.s)} \ {<<>>}
  ELSE IF FilterOption.t = "array"
  THEN {trim(FilterOption.l[i].s) : i \in {j \in DOMAIN FilterOption.l : FilterOption.l[j].t = "string"}}
       \ {<<>>}
  ELSE {}

\* traceRequests is true, a format, or an object without a filter or with an empty list
NoFilterConfigured ==
  \/ traceRequests = JTrue
  \/ traceRequests.t \in {"string", "function"}
  \/ traceRequests.t = "object" /\ FilterOption = JUndefined
  \/ traceRequests.t = "object" /\ FilterOption.t = "array" /\ FilterOption.l = <<>>

\* the url without its query string
TracePath ==
  LET marks == {i \in DOMAIN traced.url : traced.url[i] = "?"}
  IN IF marks = {} THEN traced.url
     ELSE SubSeq(traced.url, 1, (CHOOSE i \in marks : \A j \in marks : i <= j) - 1)

\* a path matches a glob pattern: literally, or below the directory of `<dir>/**`
GlobMatches(x, p) ==
  IF Len(p) >= 3 /\ SubSeq(p, Len(p) - 2, Len(p)) = <<"/", "*", "*">>
  THEN /\ StartsWith(x, SubSeq(p, 1, Len(p) - 3))
       /\ (Len(x) = Len(p) - 3 \/ x[Len(p) - 2] = "/")
  ELSE x = p

\* C21: with tracing enabled and no filter configured every request is logged; with
\* filters configured a request is logged exactly when its path without the query
\* string matches one of the filter patterns.
C21_LoggedIffNoFilterOrMatch ==
  traced.seen =>
    (traced.logged <=>
       (NoFilterConfigured \/ \E p \in ConfiguredPatterns : GlobMatches(TracePath, p)))

\* the filter names prefixes: a string or a list of strings, no glob character
PrefixFilter ==
  /\ ConfiguredPatterns # {}
  /\ \A p \in ConfiguredPatterns : \A i \in DOMAIN p : p[i] # "*"
  /\ FilterOption.t = "array" => \A i \in DOMAIN FilterOption.l : FilterOption.l[i].t = "string"

\* C22: with a filter of prefixes, exactly the requests whose url starts with one of
\* the prefixes are traced (a request to /a/f is traced under the filter '/a').
C22_PrefixFilterTraces ==
  (traced.seen /\ PrefixFilter) =>
    (traced.logged <=> \E p \in ConfiguredPatterns : StartsWith(traced.url, p))

\* C23: the Content-Type of a served file is the override for its lower-cased
\* extension (the first entry of a list), else a type of the built-in table or
\* application/octet-stream, and it is always a string; module.wasm with the
\* override {'.wasm': 'application/wasm'} is served as application/wasm.
C23_ContentTypeResolved ==
  served.seen =>
    LET custom == Get(mimeTypes, served.ext)
    IN /\ served.contentType.t = "string"
       /\ custom.t = "string" => served.contentType = custom
       /\ custom.t = "array" => served.contentType = custom.l[1]
       /\ custom.t \notin {"string", "array"} =>
            served.contentType \in {JStr(<<"application/wasm">>), JStr(<<"text/html">>),
                                    JStr(<<"application/octet-stream">>)}
       /\ ( /\ mimeTypes = JObj(<<Prop(<<".", "w", "a", "s", "m">>, JStr(<<"application/wasm">>))>>)
            /\ served.file = <<"m", ".", "w", "a", "s", "m">> )
          => served.contentType = JStr(<<"application/wasm">>)

\* C27: every response of the DevTools endpoint carries the same workspace uuid,
\* and a valid uuid option is the uuid of every response.
C27_SameUuidEveryResponse ==
  /\ \A i, j \in DOMAIN responses : responses[i].uuid = responses[j].uuid
  /\ devtools.uuid > 0 => \A i \in DOMAIN responses : responses[i].uuid = devtools.uuid

\* C28: every response of the DevTools endpoint carries the same workspace root.
C28_SameRootEveryResponse ==
  \A i, j \in DOMAIN responses : responses[i].root = responses[j].root

\* the priority order of the levels
LevelOrder == <<"error", "warn", "verbose", "info", "debug">>

PriorityOf(l) == CHOOSE i \in DOMAIN LevelOrder : LevelOrder[i] = l

\* C30: with the console logger at one of the five levels, a message is written
\* exactly when the logger is not silent and the message's level is not below the
\* logger's level in the priority order; a logger created without a (known) level
\* and not assigned one is at 'info'.
C30_WrittenIffNotBelowLevel ==
  LET Known == {LevelOrder[i] : i \in DOMAIN LevelOrder}
  IN (console.lvl # "" /\ console.logger.level \in Known) =>
       /\ console.written <=>
            (~console.logger.silent /\ PriorityOf(console.lvl) <= PriorityOf(console.logger.level))
       /\ (~console.logger.assigned /\ console.logger.given \notin Known)
             => console.logger.level = "info"

\* a verbose message dropped after log.level = 'warn', on a logger created at debug
C30_Witness ==
  /\ console.lvl = "verbose" /\ ~console.written
  /\ console.logger.assigned /\ console.logger.level = "warn"
  /\ console.logger.given = "debug" /\ ~console.logger.silent

\* C31: the controller has no logger until the first use, which creates one from
\* the current factory; later uses call no factory; config calls the factory and
\* installs what it returns; register(fn) installs fn and discards the instance,
\* register() installs the default factory and discards the instance; register with
\* any other argument throws and leaves factory and instance as they were.
C31_LazyReuseRegister ==
  [][ LET c == logCall'
      IN /\ (c.op \in {"log", "level"} /\ ~c.threw) =>
              /\ loggerInstance'.made
              /\ c.created <=> ~loggerInstance.made
              /\ c.created => loggerInstance'.by = loggerFactory
              /\ loggerFactory' = loggerFactory
         /\ c.op = "config" =>
              /\ c.created /\ loggerInstance'.made /\ loggerInstance'.by = loggerFactory
              /\ loggerFactory' = loggerFactory
         /\ c.op = "register" =>
              CASE c.fn.t = "function" ->
                     ~c.threw /\ loggerFactory' = "custom" /\ ~loggerInstance'.made
                [] c.fn.t = "undefined" ->
                     ~c.threw /\ loggerFactory' = "createLogger" /\ ~loggerInstance'.made
                [] OTHER ->
                     c.threw /\ loggerFactory' = loggerFactory
                     /\ loggerInstance' = loggerInstance ]_vars

\* C35: when parsing the command line fails, the handler logs the error message,
\* prints the help through the logger and reaches process.exit(1), and nothing is
\* thrown inside the handler.
C35_FailLogsHelpAndExits ==
  cli.phase = "failed" =>
    /\ cli.errorLogged
    /\ cli.helpPrinted
    /\ cli.exit = "exit(1)"
    /\ ~cli.threw

\* the entries of the --folder value: the pieces between its commas, without the
\* blanks around them, the empty ones left out
FolderEntries ==
  LET s == argv.folder.s
      bounds == {0, Len(s) + 1} \cup {i \in DOMAIN s : s[i] = ","}
      nth(k) == CHOOSE b \in bounds : Cardinality({c \in bounds : c < b}) = k - 1
      pieces == [k \in 1..(Cardinality(bounds) - 1) |->
                   trim(SubSeq(s, nth(k) + 1, nth(k + 1) - 1))]
  IN SelectSeq(pieces, LAMBDA e : e # <<>>)

Colons(e) == {i \in DOMAIN e : e[i] = ":"}

\* the folder an entry names, and the url it gives to it ('/' when it gives none)
FolderOf(e) ==
  IF Colons(e) = {} THEN e ELSE trim(SubSeq(e, 1, (CHOOSE i \in Colons(e) : TRUE) - 1))

UrlOf(e) ==
  LET url == IF Colons(e) = {} THEN <<>>
             ELSE trim(SubSeq(e, (CHOOSE i \in Colons(e) : TRUE) + 1, Len(e)))
  IN IF url = <<>> THEN <<"/">> ELSE url

\* the --folder value was given, names a folder and its entries are of the
\* documented forms `folder` and `folder:url`
FolderGiven ==
  /\ cli.phase = "configured"
  /\ argv.folder # JUndefined
  /\ FolderEntries # <<>>
  /\ \A i \in DOMAIN FolderEntries :
       Cardinality(Colons(FolderEntries[i])) <= 1 /\ FolderOf(FolderEntries[i]) # <<>>

\* what the claim says of a value without ':' : one entry becomes a string, several
\* a list, both served at '/'
FolderPlain ==
  LET es == FolderEntries
      mounts == normalizeContentBase(config.contentBase)
  IN (\A i \in DOMAIN es : Colons(es[i]) = {}) =>
       /\ Len(es) = 1 => config.contentBase = JStr(es[1])
       /\ Len(es) > 1 =>
            config.contentBase = JVal("array", <<>>, [i \in DOMAIN es |-> JStr(es[i])])
       /\ ~mounts.threw
       /\ {mounts.value[i].base : i \in DOMAIN mounts.value} = {es[i] : i \in DOMAIN es}
       /\ \A i \in DOMAIN mounts.value : mounts.value[i].mount = <<"/">>

\* C32 (as stated): with a ':' in any entry the result is a mapping in which every
\* entry's folder maps to that entry's url, '/' for an entry without url.
C32_EveryEntryMapsToItsUrl ==
  LET es == FolderEntries
  IN FolderGiven =>
       /\ FolderPlain
       /\ (\E i \in DOMAIN es : Colons(es[i]) # {}) =>
            /\ config.contentBase.t = "object"
            /\ KeysOf(config.contentBase.l) = {FolderOf(es[i]) : i \in DOMAIN es}
            /\ \A i \in DOMAIN es :
                 Get(config.contentBase, FolderOf(es[i])) = JStr(UrlOf(es[i]))

\* C32 (amended): ... every folder named maps to the url of the last entry that
\* names it, '/' when that entry has no url.
C32_FolderMapsToLastUrl ==
  LET es == FolderEntries
  IN FolderGiven =>
       /\ FolderPlain
       /\ (\E i \in DOMAIN es : Colons(es[i]) # {}) =>
            /\ config.contentBase.t = "object"
            /\ KeysOf(config.contentBase.l) = {FolderOf(es[i]) : i \in DOMAIN es}
            /\ \A i \in DOMAIN es :
                 (\A j \in DOMAIN es : FolderOf(es[j]) = FolderOf(es[i]) => j <= i) =>
                    Get(config.contentBase, FolderOf(es[i])) = JStr(UrlOf(es[i]))

\* `-f a:a,a`: folder a named twice, the second time without url
C32_Witness ==
  /\ cli.phase = "configured"
  /\ argv.folder = JStr(<<"a", ":", "a", ",", "a">>)
  /\ Get(config.contentBase, <<"a">>) = JStr(<<"/">>)

\* =====================================================================
\* Part 6 (SpecCalc): the calculator component (part_013): its signals display,
\* operator, firstValue, waitingForOperand and expression, and one action per key
\* handler. Strings are sequences of characters. Numbers are decimals with two
\* places, held in hundredths: [nan, n, exact]. `exact` tells that the value is
\* what the code computes in binary floating point: a handler that computes is
\* taken on exact values only (operands that are multiples of 0.25 up to 400 and a
\* result with two places), where toPrecision(12) and String print the same
\* digits; NaN is exact.
\* =====================================================================

\* ----- bound of the model: the number of keys pressed
MaxKeys == 5

\* parseFloat of a display or firstValue string: an optional '-', digits, an
\* optional '.' and digits; what follows is ignored; NaN without any digit
parseFloat(s) ==
  LET neg == s # <<>> /\ s[1] = "-"
      body == IF neg THEN Tail(s) ELSE s
      isDigit(c) == \E d \in DOMAIN Digits : Digits[d] = c
      run(t) == IF \A i \in DOMAIN t : isDigit(t[i]) THEN Len(t)
                ELSE (CHOOSE i \in DOMAIN t : ~isDigit(t[i]) /\ \A j \in 1..(i - 1) : isDigit(t[j])) - 1
      int == SubSeq(body, 1, run(body))
      rest == SubSeq(body, run(body) + 1, Len(body))
      frac == IF rest # <<>> /\ rest[1] = "." THEN SubSeq(Tail(rest), 1, run(Tail(rest)))
              ELSE <<>>
      hundredths == NumVal(SubSeq(frac \o <<"0", "0">>, 1, 2))
      small == Len(int) <= 4 /\ \A i \in 3..Len(frac) : frac[i] = "0"
  IN IF int = <<>> /\ frac = <<>> THEN [nan |-> TRUE, n |-> 0, exact |-> TRUE]
     ELSE IF ~small THEN [nan |-> FALSE, n |-> 0, exact |-> FALSE]
     ELSE [nan |-> FALSE,
           n |-> (IF neg THEN 0 - 1 ELSE 1) * (100 * NumVal(int) + hundredths),
           exact |-> TRUE]

\* formatResult (lines 62-66): toPrecision(12) without the trailing zeros and the
\* point they leave; 'NaN' for NaN; zero prints without sign
formatResult(value) ==
  LET RECURSIVE digits(_)
      digits(k) == IF k < 10 THEN <<Digits[k + 1]>>
                   ELSE digits(k \div 10) \o <<Digits[(k % 10) + 1]>>
      abs == IF value.n < 0 THEN 0 - value.n ELSE value.n
      frac == IF abs % 100 = 0 THEN <<>>
              ELSE IF abs % 10 = 0 THEN <<".", Digits[((abs % 100) \div 10) + 1]>>
              ELSE <<".", Digits[((abs % 100) \div 10) + 1], Digits[(abs % 10) + 1]>>
  IN IF value.nan THEN <<"N", "a", "N">>
     ELSE (IF value.n < 0 THEN <<"-">> ELSE <<>>) \o digits(abs \div 100) \o frac

\* calculate (lines 109-122)
calculate(first, second, op) ==
  LET NaN == [nan |-> TRUE, n |-> 0, exact |-> TRUE]
      inexact == [nan |-> FALSE, n |-> 0, exact |-> FALSE]
      abs(k) == IF k < 0 THEN 0 - k ELSE k
      binary(x) == x.exact /\ abs(x.n) <= 40000 /\ abs(x.n) % 25 = 0
      number(k) == [nan |-> FALSE, n |-> k, exact |-> TRUE]
      sign == IF (first.n < 0) = (second.n < 0) THEN 1 ELSE 0 - 1
  IN IF op \notin {"+", "-", "*", "/"} THEN second
     ELSE IF first.nan \/ second.nan THEN NaN
     ELSE IF op = "/" /\ second.exact /\ second.n = 0 THEN NaN
     ELSE IF ~binary(first) \/ ~binary(second) THEN inexact
     ELSE CASE op = "+" -> number(first.n + second.n)
            [] op = "-" -> number(first.n - second.n)
            [] op = "*" -> IF (first.n * second.n) % 100 = 0
                           THEN number((first.n * second.n) \div 100) ELSE inexact
            [] op = "/" -> IF (abs(first.n) * 100) % abs(second.n) = 0
                           THEN number(sign * ((abs(first.n) * 100) \div abs(second.n)))
                           ELSE inexact

\* a digit key: inputDigit (lines 68-71)
inputDigit(digit) ==
  /\ Len(keys) < MaxKeys
  /\ display' = IF waitingForOperand THEN <<digit>>
                ELSE IF display = <<"0">> THEN <<digit>> ELSE display \o <<digit>>
  /\ waitingForOperand' = FALSE
  /\ keys' = Append(keys, [k |-> digit, ran |-> TRUE])
  /\ UNCHANGED <<operator, firstValue, expression>>
  /\ UNCHANGED <<unit, traceRequests, traced, mimeTypes, served, devtools, responses,
                 loggerInstance, console, loggerFactory, logCall, cli, argv, config,
                 lifeVars, pipeVars, normVars>>

\* the '.' key: inputDot (lines 73-75)
inputDot ==
  LET includes == \E i \in DOMAIN display : display[i] = "."
  IN /\ Len(keys) < MaxKeys
     /\ display' = IF ~includes THEN display \o <<".">> ELSE display
     /\ keys' = Append(keys, [k |-> ".", ran |-> ~includes])
     /\ UNCHANGED <<operator, firstValue, waitingForOperand, expression>>
     /\ UNCHANGED <<unit, traceRequests, traced, mimeTypes, served, devtools, responses,
                    loggerInstance, console, loggerFactory, logCall, cli, argv, config,
                    lifeVars, pipeVars, normVars>>

\* (mutant) AC that keeps the pending operator
clearKeepOperator ==
  /\ Len(keys) < MaxKeys
  /\ display' = <<"0">>
  /\ firstValue' = JNull
  /\ waitingForOperand' = FALSE
  /\ expression' = <<>>
  /\ keys' = Append(keys, [k |-> "AC", ran |-> TRUE])
  /\ UNCHANGED operator
  /\ UNCHANGED <<unit, traceRequests, traced, mimeTypes, served, devtools, responses,
                 loggerInstance, console, loggerFactory, logCall, cli, argv, config,
                 lifeVars, pipeVars, normVars>>

\* the AC key: clear (lines 77-83)
clear ==
  /\ Len(keys) < MaxKeys
  /\ display' = <<"0">>
  /\ operator' = JNull
  /\ firstValue' = JNull
  /\ waitingForOperand' = FALSE
  /\ expression' = <<>>
  /\ keys' = Append(keys, [k |-> "AC", ran |-> TRUE])
  /\ UNCHANGED <<unit, traceRequests, traced, mimeTypes, served, devtools, responses,
                 loggerInstance, console, loggerFactory, logCall, cli, argv, config,
                 lifeVars, pipeVars, normVars>>

\* the +/- key: toggleSign (lines 85-87)
toggleSign ==
  /\ Len(keys) < MaxKeys
  /\ display' = IF display # <<>> /\ display[1] = "-" THEN Tail(display)
                ELSE <<"-">> \o display
  /\ keys' = Append(keys, [k |-> "+/-", ran |-> TRUE])
  /\ UNCHANGED <<operator, firstValue, waitingForOperand, expression>>
  /\ UNCHANGED <<unit, traceRequests, traced, mimeTypes, served, devtools, responses,
                 loggerInstance, console, loggerFactory, logCall, cli, argv, config,
                 lifeVars, pipeVars, normVars>>

\* the % key: inputPercent (lines 89-92). String(value / 100): value / 100 has two
\* places when value is whole
inputPercent ==
  LET value == parseFloat(display)
      String(x) == formatResult(x)
  IN /\ Len(keys) < MaxKeys
     /\ value.exact
     /\ value.n % 100 = 0
     /\ display' = IF ~value.nan THEN String([value EXCEPT !.n = value.n \div 100])
                   ELSE display
     /\ keys' = Append(keys, [k |-> "%", ran |-> ~value.nan])
     /\ UNCHANGED <<operator, firstValue, waitingForOperand, expression>>
     /\ UNCHANGED <<unit, traceRequests, traced, mimeTypes, served, devtools, responses,
                    loggerInstance, console, loggerFactory, logCall, cli, argv, config,
                    lifeVars, pipeVars, normVars>>

\* an operator key: performOperation (lines 94-107)
performOperation(nextOperator) ==
  LET inputValue == parseFloat(display)
      result == calculate(parseFloat(firstValue.s), inputValue, operator.s[1])
      String(x) == formatResult(x)
      calculates == firstValue # JNull /\ Truthy(operator)
  IN /\ Len(keys) < MaxKeys
     /\ calculates => result.exact
     /\ IF firstValue = JNull
        THEN /\ firstValue' = JStr(display)
             /\ expression' = display
             /\ display' = display
        ELSE IF Truthy(operator)
        THEN /\ expression' = expression \o <<" ">> \o operator.s \o <<" ">> \o display
             /\ display' = formatResult(result)
             /\ firstValue' = JStr(String(result))
        ELSE UNCHANGED <<firstValue, expression, display>>
     /\ operator' = JStr(<<nextOperator>>)
     /\ waitingForOperand' = TRUE
     /\ keys' = Append(keys, [k |-> nextOperator, ran |-> calculates])
     /\ UNCHANGED <<unit, traceRequests, traced, mimeTypes, served, devtools, responses,
                    loggerInstance, console, loggerFactory, logCall, cli, argv, config,
                    lifeVars, pipeVars, normVars>>

\* the = key: handleEquals (lines 124-140); the expression is posted to /log by
\* sendLogEntry and cleared
handleEquals ==
  LET first == parseFloat(firstValue.s)
      second == parseFloat(display)
      result == calculate(first, second, operator.s[1])
      completes == Truthy(operator) /\ firstValue # JNull
  IN /\ Len(keys) < MaxKeys
     /\ completes => result.exact
     /\ IF completes
        THEN /\ display' = formatResult(result)
             /\ firstValue' = JNull
             /\ operator' = JNull
             /\ waitingForOperand' = FALSE
             /\ expression' = <<>>
        ELSE UNCHANGED <<display, firstValue, operator, waitingForOperand, expression>>
     /\ keys' = Append(keys, [k |-> "=", ran |-> completes])
     /\ UNCHANGED <<unit, traceRequests, traced, mimeTypes, served, devtools, responses,
                    loggerInstance, console, loggerFactory, logCall, cli, argv, config,
                    lifeVars, pipeVars, normVars>>

\* the keys of the model: two of the ten digit keys, and every other key
NextCalc ==
  \/ \E digit \in {"0", "5"} : inputDigit(digit)
  \/ inputDot
  \/ clear
  \/ toggleSign
  \/ inputPercent
  \/ \E nextOperator \in {"+", "-", "*", "/"} : performOperation(nextOperator)
  \/ handleEquals

\* C36: after any sequence of keys a pending operator has a stored first value, and
\* the calculator waits for an operand only while an operator is pending.
C36_OperatorHasFirstValue ==
  /\ operator # JNull => firstValue # JNull
  /\ waitingForOperand => operator # JNull

\* 5 + * : the operator replaced, the intermediate result stored
C36_Witness ==
  /\ Len(keys) = 3
  /\ operator = JStr(<<"*">>) /\ firstValue = JStr(<<"1", "0">>) /\ waitingForOperand

\* C37: the first digit or dot pressed right after an operator key, or right after an
\* equals that completed a calculation, starts a new operand: the display becomes
\* that digit (for the dot: a fresh operand, '.' or '0.'), it is not the value
\* displayed before with the key appended.
C37_EntryStartsNewOperand ==
  [][ LET prev == keys[Len(keys)]
          key == keys'[Len(keys')].k
      IN ( /\ Len(keys) >= 1 /\ Len(keys') = Len(keys) + 1
           /\ prev.k \in {"+", "-", "*", "/"} \/ (prev.k = "=" /\ prev.ran)
           /\ key \in {"0", "5", "."} )
         => IF key = "." THEN display' \in {<<".">>, <<"0", ".">>}
            ELSE display' = <<key>> ]_vars

\* C38: an operator key pressed right after an operator key only replaces the
\* pending operator: display, first value and expression stay as they are and
\* nothing is calculated.
C38_OperatorOnlyReplaced ==
  [][ LET prev == keys[Len(keys)]
          key == keys'[Len(keys')]
      IN ( /\ Len(keys) >= 1 /\ Len(keys') = Len(keys) + 1
           /\ prev.k \in {"+", "-", "*", "/"}
           /\ key.k \in {"+", "-", "*", "/"} )
         => /\ operator' = JStr(<<key.k>>)
            /\ display' = display
            /\ firstValue' = firstValue
            /\ expression' = expression
            /\ ~key.ran ]_vars

Init == InitLife /\ IdlePipe /\ IdleNorm /\ IdleUnits

Next == NextLife

Spec == Init /\ [][Next]_vars

SpecHttps == Init /\ [][NextHttps]_vars

SpecCalc == Init /\ [][NextCalc]_vars

====
